---- MODULE Spec2Model ----
(***************************************************************************)
(* The read path of the Inspect VMO format: snapshot acquisition, block    *)
(* scanning and the bottom-up reconstruction of the Hierarchy performed by *)
(* inspect::internal::Reader (zircon/system/ulib/inspect/reader.cc).       *)
(*                                                                         *)
(* A buffer is a sequence of 16-byte units; the unit at block index i is   *)
(* element i+1 of the sequence.  Each unit is a record                     *)
(*   [type, order, lo, hi, a, b, c]                                        *)
(* type/order : the type tag and the size class of the header word         *)
(* lo         : the low type-specific header field (ParentIndex of a value *)
(*              block, Length of a Name block, NextExtentIndex of an       *)
(*              Extent block: they share the same bits of the header word) *)
(* hi         : the high type-specific header field (NameIndex of a value  *)
(*              block, the magic number of the Header block)               *)
(* a, b, c    : the fields of the first payload word (the number of a      *)
(*              numeric value; entry type, flags, count of an array; total *)
(*              length, extent index, flags of a property; the generation  *)
(*              count of the header)                                       *)
(* The payload bytes of a block (names, extent contents, array slots) are  *)
(* not stored: the byte at buffer offset o has the value o, so that a copy *)
(* of payload bytes records where it was read from.                        *)
(***************************************************************************)
EXTENDS Integers, Sequences, FiniteSets, TLC

VARIABLES
  vmo,            \* the shared buffer (ReadFromVmo) or the input bytes (ReadFromBuffer)
  wpc,            \* writer: "idle" or "writing" (between the two generation bumps)
  wleft,          \* writer: mutations it may still start
  quiescent,      \* history: generation |-> contents of vmo when that generation began
  apc,            \* Snapshot::Create on a VMO: position of the acquisition loop
  tries,          \* acquisition attempts started so far
  g1,             \* generation read before the copy
  copy,           \* the units copied so far in this attempt
  snapshot_,      \* Reader::snapshot_ (<< >> is the invalid snapshot)
  apc2,           \* a second ReadFromVmo: position of its Snapshot::Create
  tries2,         \* second reader: acquisition attempts started so far
  gen2,           \* second reader: generation read before the copy
  copy2,          \* second reader: the units copied so far in this attempt
  snapshot2,      \* second reader: the snapshot Snapshot::Create returned
  pc,             \* position of ReadFromBuffer / Reader::Read
  cursor,         \* ScanBlocks: block index of the next block
  parsed_nodes_,  \* Reader::parsed_nodes_: block index |-> ParsedNode
  sweep,          \* keys the for loop of Read() has not visited yet
  complete_nodes, \* the stack of Read(): sequence of [h, parent], top last
  result,         \* what Read() returned: [status, h]
  maxRead,        \* history: highest byte offset (exclusive) read from the snapshot
  pops,           \* history: iterations of the while loop of Read()
  nAcc            \* history: accumulators in parsed_nodes_ when the scan ended

vars == <<vmo, wpc, wleft, quiescent, apc, tries, g1, copy, snapshot_, apc2, tries2, gen2,
          copy2, snapshot2, pc, cursor, parsed_nodes_, sweep, complete_nodes, result,
          maxRead, pops, nAcc>>

\* the state of the second reader
r2Vars == <<apc2, tries2, gen2, copy2, snapshot2>>

acqVars == <<vmo, wpc, wleft, quiescent, apc, tries, g1, copy, r2Vars>>
readVars == <<pc, cursor, parsed_nodes_, sweep, complete_nodes, result, maxRead, pops, nAcc>>

(***************************************************************************)
(* Bounds of the model                                                     *)
(***************************************************************************)
\* units in an input buffer of ReadFromBuffer
BufLen == 5
\* units of the shared VMO of ReadFromVmo
VmoLen == 4
\* mutations the writer starts on the shared VMO
MaxWrites == 2
\* attempts Snapshot::Create makes before it gives up
MaxAttempts == 2
\* mutations the writer starts while two readers read the shared VMO
TwoReaderWrites == 1

NULL == -1

Max(x, y) == IF x >= y THEN x ELSE y
Min(x, y) == IF x <= y THEN x ELSE y

(***************************************************************************)
(* Block format                                                            *)
(***************************************************************************)
kMinOrderSize == 16
kHeaderWordSize == 8
kSlotSize == 8
kMagic == 1

OrderToSize(order) == kMinOrderSize * (2 ^ order)
\* units a block of this order covers
OrderToUnits(order) == 2 ^ order
PayloadCapacity(order) == OrderToSize(order) - kHeaderWordSize
\* slots after the header word and the first payload word
ArrayCapacity(order) == (OrderToSize(order) - kHeaderWordSize - kSlotSize) \div kSlotSize

Block(type, order, lo, hi, a, b, c) ==
  [type |-> type, order |-> order, lo |-> lo, hi |-> hi, a |-> a, b |-> b, c |-> c]

\* the unit at block index `index` of buffer s
At(s, index) == s[index + 1]
GetType(s, index) == At(s, index).type
GetOrder(s, index) == At(s, index).order
SizeBytes(s) == Len(s) * kMinOrderSize
PayloadOffset(index) == index * kMinOrderSize + kHeaderWordSize

\* internal::GetBlock: the index when the whole declared block lies in the
\* snapshot, NULL otherwise.
GetBlock(s, index) ==
  IF index < 0 \/ index >= Len(s) THEN NULL
  ELSE IF index + OrderToUnits(GetOrder(s, index)) > Len(s) THEN NULL
  ELSE index

\* payload.data[0 .. len): each byte carries its own buffer offset
PayloadData(index, len) == [k \in 1..len |-> PayloadOffset(index) + k - 1]

\* slot k (from 0) of an array block: the offset of the slot stands for its value
SlotValue(index, k) == PayloadOffset(index) + kSlotSize * (k + 1)

\* size_t stands for a width far above any capacity of the model
kSizeTBits == 30
ToSizeT(x) == x % (2 ^ kSizeTBits)

\* GetArraySlot<T>(block, index): the slot's number, NULL when index is past the
\* capacity; index = capacity is the one-past-the-end position that
\* std::copy(GetArraySlot(block, 0), GetArraySlot(block, count), ...) needs.
GetArraySlot(order, index) ==
  IF index > ArrayCapacity(order) THEN NULL ELSE index

(***************************************************************************)
(* Hierarchy and ParsedNode                                                *)
(***************************************************************************)
\* "root" as bytes
RootName == <<114, 111, 111, 116>>

\* idx is history: the block index the accumulator of this node was created for
Hierarchy(name, properties, children, idx) ==
  [name |-> name, properties |-> properties, children |-> children, idx |-> idx]

\* src is history: the block index of the value block
Property(name, kind, value, format, src) ==
  [name |-> name, kind |-> kind, value |-> value, format |-> format, src |-> src]

\* a ParsedNode that counts as initialized from its creation
NewParsedNode_initialized(index) ==
  [hierarchy |-> Hierarchy(<< >>, << >>, << >>, index),
   children_count |-> 0, parent |-> 0, initialized_ |-> TRUE]

\* ParsedNode(): value-initialised, so parent is 0
NewParsedNode(index) ==
  [hierarchy |-> Hierarchy(<< >>, << >>, << >>, index),
   children_count |-> 0, parent |-> 0, initialized_ |-> FALSE]

\* an InitializeNode that does not store the parent index
InitializeNode_noParent(node, name, new_parent) ==
  [node EXCEPT !.hierarchy.name = name, !.initialized_ = TRUE]

\* an InitializeNode that does not mark the node initialized
InitializeNode_unset(node, name, new_parent) ==
  [node EXCEPT !.hierarchy.name = name, !.parent = new_parent]

InitializeNode(node, name, new_parent) ==
  [node EXCEPT !.hierarchy.name = name, !.parent = new_parent, !.initialized_ = TRUE]

\* a completeness test that does not wait for the counted children
is_complete_always(node) == TRUE

\* a completeness test that is content with the first child to arrive
is_complete_some(node) ==
  Len(node.hierarchy.children) >= Min(1, node.children_count)

is_complete(node) == Len(node.hierarchy.children) = node.children_count

add_child(node, h) ==
  [node EXCEPT !.hierarchy.children = Append(@, h)]

add_property(node, p) ==
  [node EXCEPT !.hierarchy.properties = Append(@, p)]

\* a lookup that hands out a fresh accumulator every time
GetOrCreate_fresh(pn, index) == (index :> NewParsedNode(index)) @@ pn

GetOrCreate(pn, index) ==
  IF index \in DOMAIN pn THEN pn ELSE pn @@ (index :> NewParsedNode(index))

\* an erase that leaves the entry in the map
Erase_keep(pn, index) == pn

Erase(pn, index) == [k \in (DOMAIN pn) \ {index} |-> pn[k]]

(***************************************************************************)
(* Reader: parsing of one block                                            *)
(***************************************************************************)
NoProperty == Property(<< >>, "none", << >>, "none", NULL)

\* what parsing one value block did: the property to add (if add), the highest
\* offset read, and whether the parse ran into undefined behaviour
Parsed(add, prop, readEnd, ub) ==
  [add |-> add, prop |-> prop, readEnd |-> readEnd, ub |-> ub]

\* a GetAndValidateName without the check of the declared length
GetAndValidateName_unchecked(s, index) ==
  LET block == GetBlock(s, index) IN
  IF block = NULL
  THEN [ok |-> FALSE, name |-> << >>, readEnd |-> 0]
  ELSE [ok |-> TRUE, name |-> PayloadData(block, At(s, block).lo),
        readEnd |-> PayloadOffset(block) + At(s, block).lo]

\* Reader::GetAndValidateName: [ok, name, readEnd]
GetAndValidateName(s, index) ==
  LET block == GetBlock(s, index) IN
  IF block = NULL
  THEN [ok |-> FALSE, name |-> << >>, readEnd |-> 0]
  ELSE LET capacity == PayloadCapacity(GetOrder(s, block))
           len == At(s, block).lo
       IN IF len > capacity
          THEN [ok |-> FALSE, name |-> << >>, readEnd |-> PayloadOffset(block)]
          ELSE [ok |-> TRUE, name |-> PayloadData(block, len),
                readEnd |-> PayloadOffset(block) + len]

NumericTypes == {"IntValue", "UintValue", "DoubleValue"}
ValueTypes == NumericTypes \cup {"ArrayValue"}

\* a reading of every numeric payload as a signed value
NumericKind_signed(type) == "int"

NumericKind(type) ==
  CASE type = "IntValue" -> "int"
    [] type = "UintValue" -> "uint"
    [] type = "DoubleValue" -> "double"
    [] OTHER -> "none"

\* the BlockType enumerators an array's entry type field can name
kIntValue == 4
kUintValue == 5
kDoubleValue == 6
NumericCodes == {kIntValue, kUintValue, kDoubleValue}

ArrayKind(entry_type) ==
  CASE entry_type = kIntValue -> "int_array"
    [] entry_type = kUintValue -> "uint_array"
    [] entry_type = kDoubleValue -> "double_array"
    [] OTHER -> "none"

\* a conversion that knows the three tags and nothing else
ArrayBlockFormatToDisplay_known(format) ==
  CASE format = 0 -> "flat"
    [] format = 1 -> "linear_histogram"
    [] format = 2 -> "exponential_histogram"
    [] OTHER -> "none"

\* ArrayBlockFormat: 0 flat, 1 linear histogram, 2 exponential histogram
ArrayBlockFormatToDisplay(format) ==
  CASE format = 1 -> "linear_histogram"
    [] format = 2 -> "exponential_histogram"
    [] OTHER -> "flat"

\* the ArrayValue case of Reader::InnerParseNumericProperty
ParseArray(s, index, name) ==
  LET block == At(s, index)
      entry_type == block.a
      count == block.c
      array_format == ArrayBlockFormatToDisplay(block.b)
      headEnd == PayloadOffset(index) + kSlotSize
  IN IF GetArraySlot(block.order, ToSizeT(count - 1)) = NULL
     THEN Parsed(FALSE, NoProperty, headEnd, FALSE)
     ELSE IF entry_type \notin NumericCodes
     THEN Parsed(FALSE, NoProperty, headEnd, FALSE)
     ELSE IF GetArraySlot(block.order, count) = NULL
     \* std::copy(first, nullptr, ...): first never meets last
     THEN Parsed(FALSE, NoProperty, headEnd + kSlotSize * count, TRUE)
     ELSE Parsed(TRUE,
                 Property(name, ArrayKind(entry_type),
                          [k \in 1..count |-> SlotValue(index, k - 1)],
                          array_format, index),
                 headEnd + kSlotSize * count, FALSE)

\* Reader::InnerParseNumericProperty for the block at `index`
InnerParseNumericProperty(s, index) ==
  LET block == At(s, index)
      name == GetAndValidateName(s, block.hi)
  IN IF ~name.ok
     THEN Parsed(FALSE, NoProperty, name.readEnd, FALSE)
     ELSE IF block.type \in NumericTypes
     THEN Parsed(TRUE,
                 Property(name.name, NumericKind(block.type), <<block.a>>, "none", index),
                 Max(name.readEnd, PayloadOffset(index) + kSlotSize), FALSE)
     ELSE IF block.type = "ArrayValue"
     THEN LET r == ParseArray(s, index, name.name)
          IN [r EXCEPT !.readEnd = Max(@, name.readEnd)]
     ELSE Parsed(FALSE, NoProperty, name.readEnd, FALSE)

\* an extent loop that takes the whole payload of every extent
RECURSIVE ExtentWalk_whole(_, _, _, _, _)
ExtentWalk_whole(s, extent, remaining_length, buf, readEnd) ==
  IF remaining_length <= 0 THEN [buf |-> buf, readEnd |-> readEnd]
  ELSE IF extent = NULL THEN [buf |-> buf, readEnd |-> readEnd]
  ELSE IF GetType(s, extent) # "Extent" THEN [buf |-> buf, readEnd |-> readEnd]
  ELSE LET len == PayloadCapacity(GetOrder(s, extent))
           next_extent == At(s, extent).lo
       IN ExtentWalk_whole(s, GetBlock(s, next_extent), remaining_length - len,
                           buf \o PayloadData(extent, len),
                           Max(readEnd, PayloadOffset(extent) + len))

\* the number of iterations the while loop of Reader::InnerParseProperty makes,
\* NULL when it needs more than `fuel`
RECURSIVE ExtentIterations(_, _, _, _)
ExtentIterations(s, extent, remaining_length, fuel) ==
  IF remaining_length <= 0 THEN 0
  ELSE IF extent = NULL THEN 0
  ELSE IF GetType(s, extent) # "Extent" THEN 0
  ELSE IF fuel = 0 THEN NULL
  ELSE LET len == Min(remaining_length, PayloadCapacity(GetOrder(s, extent)))
           next_extent == At(s, extent).lo
           more == ExtentIterations(s, GetBlock(s, next_extent), remaining_length - len,
                                    fuel - 1)
       IN IF more = NULL THEN NULL ELSE more + 1

\* the while loop of Reader::InnerParseProperty: [buf, readEnd]
RECURSIVE ExtentWalk(_, _, _, _, _)
ExtentWalk(s, extent, remaining_length, buf, readEnd) ==
  IF remaining_length <= 0 THEN [buf |-> buf, readEnd |-> readEnd]
  ELSE IF extent = NULL THEN [buf |-> buf, readEnd |-> readEnd]
  ELSE IF GetType(s, extent) # "Extent" THEN [buf |-> buf, readEnd |-> readEnd]
  ELSE LET len == Min(remaining_length, PayloadCapacity(GetOrder(s, extent)))
           next_extent == At(s, extent).lo
       IN ExtentWalk(s, GetBlock(s, next_extent), remaining_length - len,
                     buf \o PayloadData(extent, len),
                     Max(readEnd, PayloadOffset(extent) + len))

\* PropertyBlockFormat::kBinary
kBinary == 1

\* an InnerParseProperty that does not cap the declared length by the size of
\* the snapshot
InnerParseProperty_uncapped(s, index) ==
  LET block == At(s, index)
      name == GetAndValidateName(s, block.hi)
  IN IF ~name.ok
     THEN Parsed(FALSE, NoProperty, name.readEnd, FALSE)
     ELSE LET remaining_length == block.a
              w == ExtentWalk(s, GetBlock(s, block.b), remaining_length, << >>,
                              Max(name.readEnd, PayloadOffset(index) + kSlotSize))
              kind == IF (block.c % 2) = kBinary THEN "bytes" ELSE "string"
          IN Parsed(TRUE, Property(name.name, kind, w.buf, "none", index),
                    w.readEnd, FALSE)

\* an InnerParseProperty that drops a property whose extents hold less than
\* the length it declares
InnerParseProperty_strict(s, index) ==
  LET block == At(s, index)
      name == GetAndValidateName(s, block.hi)
  IN IF ~name.ok
     THEN Parsed(FALSE, NoProperty, name.readEnd, FALSE)
     ELSE LET remaining_length == Min(SizeBytes(s), block.a)
              w == ExtentWalk(s, GetBlock(s, block.b), remaining_length, << >>,
                              Max(name.readEnd, PayloadOffset(index) + kSlotSize))
              kind == IF (block.c % 2) = kBinary THEN "bytes" ELSE "string"
          IN IF Len(w.buf) < remaining_length
             THEN Parsed(FALSE, NoProperty, w.readEnd, FALSE)
             ELSE Parsed(TRUE, Property(name.name, kind, w.buf, "none", index),
                         w.readEnd, FALSE)

\* Reader::InnerParseProperty for the block at `index`
InnerParseProperty(s, index) ==
  LET block == At(s, index)
      name == GetAndValidateName(s, block.hi)
  IN IF ~name.ok
     THEN Parsed(FALSE, NoProperty, name.readEnd, FALSE)
     ELSE LET remaining_length == Min(SizeBytes(s), block.a)
              w == ExtentWalk(s, GetBlock(s, block.b), remaining_length, << >>,
                              Max(name.readEnd, PayloadOffset(index) + kSlotSize))
              kind == IF (block.c % 2) = kBinary THEN "bytes" ELSE "string"
          IN Parsed(TRUE, Property(name.name, kind, w.buf, "none", index),
                    w.readEnd, FALSE)

\* an InnerCreateObject that counts the child before it validates the name
InnerCreateObject_countFirst(pn, s, index) ==
  LET block == At(s, index)
      name == GetAndValidateName(s, block.hi)
      parent_index == block.lo
      counted == IF parent_index # index
                 THEN [GetOrCreate(pn, parent_index) EXCEPT
                         ![parent_index].children_count = @ + 1]
                 ELSE pn
  IN IF ~name.ok THEN counted
     ELSE LET pn1 == GetOrCreate(counted, index)
          IN [pn1 EXCEPT ![index] = InitializeNode(@, name.name, parent_index)]

\* an InnerCreateObject that goes on with an empty name when the name fails
InnerCreateObject_unnamed(pn, s, index) ==
  LET block == At(s, index)
      name == GetAndValidateName(s, block.hi)
      parent_index == block.lo
      pn1 == GetOrCreate(pn, index)
      pn2 == [pn1 EXCEPT ![index] =
                InitializeNode(@, IF name.ok THEN name.name ELSE << >>, parent_index)]
  IN IF parent_index # index
     THEN LET pn3 == GetOrCreate(pn2, parent_index)
          IN [pn3 EXCEPT ![parent_index].children_count = @ + 1]
     ELSE pn2

\* an InnerCreateObject that counts a node as a child of itself too
InnerCreateObject_countsSelf(pn, s, index) ==
  LET block == At(s, index)
      name == GetAndValidateName(s, block.hi)
      parent_index == block.lo
  IN IF ~name.ok THEN pn
     ELSE LET pn1 == GetOrCreate(pn, index)
              pn2 == [pn1 EXCEPT ![index] = InitializeNode(@, name.name, parent_index)]
              pn3 == GetOrCreate(pn2, parent_index)
          IN [pn3 EXCEPT ![parent_index].children_count = @ + 1]

\* Reader::InnerCreateObject
InnerCreateObject(pn, s, index) ==
  LET block == At(s, index)
      name == GetAndValidateName(s, block.hi)
      parent_index == block.lo
  IN IF ~name.ok THEN pn
     ELSE LET pn1 == GetOrCreate(pn, index)
              pn2 == [pn1 EXCEPT ![index] = InitializeNode(@, name.name, parent_index)]
          IN IF parent_index # index
             THEN LET pn3 == GetOrCreate(pn2, parent_index)
                  IN [pn3 EXCEPT ![parent_index].children_count = @ + 1]
             ELSE pn2

\* an attachment that counts the value block as a child of its parent
Attach_counts(pn, parent_index, r) ==
  LET pn1 == GetOrCreate(pn, parent_index)
      pn2 == [pn1 EXCEPT ![parent_index].children_count = @ + 1]
  IN IF r.add THEN [pn2 EXCEPT ![parent_index] = add_property(@, r.prop)] ELSE pn2

\* attach the outcome of a value block's parse to the accumulator of its parent
Attach(pn, parent_index, r) ==
  LET pn1 == GetOrCreate(pn, parent_index)
  IN IF r.add THEN [pn1 EXCEPT ![parent_index] = add_property(@, r.prop)] ELSE pn1

\* a callback that goes on whatever block 0 is
Visit_anyFirstBlock(pn, s, index) ==
  LET type == GetType(s, index)
      headEnd == PayloadOffset(index)
  IN IF index = 0
     THEN [pn |-> pn, cont |-> TRUE, readEnd |-> headEnd, ub |-> FALSE]
     ELSE IF type = "NodeValue"
     THEN [pn |-> InnerCreateObject(pn, s, index), cont |-> TRUE,
           readEnd |-> Max(headEnd, GetAndValidateName(s, At(s, index).hi).readEnd),
           ub |-> FALSE]
     ELSE IF type \in ValueTypes
     THEN LET r == InnerParseNumericProperty(s, index)
          IN [pn |-> Attach(pn, At(s, index).lo, r), cont |-> TRUE,
              readEnd |-> Max(headEnd, r.readEnd), ub |-> r.ub]
     ELSE IF type = "PropertyValue"
     THEN LET r == InnerParseProperty(s, index)
          IN [pn |-> Attach(pn, At(s, index).lo, r), cont |-> TRUE,
              readEnd |-> Max(headEnd, r.readEnd), ub |-> r.ub]
     ELSE [pn |-> pn, cont |-> TRUE, readEnd |-> headEnd, ub |-> FALSE]

\* a callback that looks at the type before it looks at the index
Visit_typeFirst(pn, s, index) ==
  LET type == GetType(s, index)
      headEnd == PayloadOffset(index)
  IN IF type = "NodeValue"
     THEN [pn |-> InnerCreateObject(pn, s, index), cont |-> TRUE,
           readEnd |-> Max(headEnd, GetAndValidateName(s, At(s, index).hi).readEnd),
           ub |-> FALSE]
     ELSE IF index = 0
     THEN [pn |-> pn, cont |-> (type = "Header"), readEnd |-> headEnd, ub |-> FALSE]
     ELSE IF type \in ValueTypes
     THEN LET r == InnerParseNumericProperty(s, index)
          IN [pn |-> Attach(pn, At(s, index).lo, r), cont |-> TRUE,
              readEnd |-> Max(headEnd, r.readEnd), ub |-> r.ub]
     ELSE IF type = "PropertyValue"
     THEN LET r == InnerParseProperty(s, index)
          IN [pn |-> Attach(pn, At(s, index).lo, r), cont |-> TRUE,
              readEnd |-> Max(headEnd, r.readEnd), ub |-> r.ub]
     ELSE [pn |-> pn, cont |-> TRUE, readEnd |-> headEnd, ub |-> FALSE]

\* the callback of Reader::InnerScanBlocks: [pn, cont, readEnd, ub]
Visit(pn, s, index) ==
  LET type == GetType(s, index)
      headEnd == PayloadOffset(index)
  IN IF index = 0
     THEN [pn |-> pn, cont |-> (type = "Header"), readEnd |-> headEnd, ub |-> FALSE]
     ELSE IF type = "NodeValue"
     THEN [pn |-> InnerCreateObject(pn, s, index), cont |-> TRUE,
           readEnd |-> Max(headEnd, GetAndValidateName(s, At(s, index).hi).readEnd),
           ub |-> FALSE]
     ELSE IF type \in ValueTypes
     THEN LET r == InnerParseNumericProperty(s, index)
          IN [pn |-> Attach(pn, At(s, index).lo, r), cont |-> TRUE,
              readEnd |-> Max(headEnd, r.readEnd), ub |-> r.ub]
     ELSE IF type = "PropertyValue"
     THEN LET r == InnerParseProperty(s, index)
          IN [pn |-> Attach(pn, At(s, index).lo, r), cont |-> TRUE,
              readEnd |-> Max(headEnd, r.readEnd), ub |-> r.ub]
     ELSE [pn |-> pn, cont |-> TRUE, readEnd |-> headEnd, ub |-> FALSE]


(***************************************************************************)
(* ReadFromBuffer, ReadFromSnapshot and Reader::Read as a state machine    *)
(***************************************************************************)
EmptyHierarchy == Hierarchy(<< >>, << >>, << >>, NULL)
NoResult == [status |-> "none", h |-> EmptyHierarchy]
Error == [status |-> "error", h |-> EmptyHierarchy]
Crash == [status |-> "crash", h |-> EmptyHierarchy]
Ok(h) == [status |-> "ok", h |-> h]

\* Snapshot::Create on a byte buffer: the buffer holds a header block that
\* carries the magic number
SnapshotValid(buffer) == Len(buffer) >= 1 /\ At(buffer, 0).hi = kMagic

\* ReadFromBuffer: Snapshot::Create, then ReadFromSnapshot
Create ==
  /\ pc = "create"
  /\ IF SnapshotValid(vmo)
     THEN /\ snapshot_' = vmo
          /\ pc' = "read"
          /\ result' = result
     ELSE /\ snapshot_' = snapshot_
          /\ pc' = "done"
          /\ result' = Error
  /\ UNCHANGED <<acqVars, cursor, parsed_nodes_, sweep, complete_nodes, maxRead, pops, nAcc>>

\* a Read() that does not test the snapshot before it scans
ReadStart_unchecked ==
  /\ pc = "read"
  /\ pc' = "scan"
  /\ result' = result
  /\ parsed_nodes_' = (0 :> InitializeNode(NewParsedNode(0), RootName, 0))
  /\ cursor' = 0
  /\ UNCHANGED <<acqVars, snapshot_, sweep, complete_nodes, maxRead, pops, nAcc>>

\* Reader::Read up to the call of InnerScanBlocks
ReadStart ==
  /\ pc = "read"
  /\ IF Len(snapshot_) = 0
     THEN /\ pc' = "done"
          /\ result' = Error
          /\ parsed_nodes_' = parsed_nodes_
     ELSE /\ pc' = "scan"
          /\ result' = result
          /\ parsed_nodes_' = (0 :> InitializeNode(NewParsedNode(0), RootName, 0))
  /\ cursor' = 0
  /\ UNCHANGED <<acqVars, snapshot_, sweep, complete_nodes, maxRead, pops, nAcc>>

\* the scan is over: Read() starts its for loop over parsed_nodes_
EndScan ==
  /\ pc' = "sweep"
  /\ sweep' = DOMAIN parsed_nodes_'
  /\ nAcc' = Cardinality(DOMAIN parsed_nodes_')

\* a scan that reads the blocks from the shared buffer, not from the snapshot
ScanStep_live ==
  /\ pc = "scan"
  /\ cursor < Len(vmo)
  /\ IF GetBlock(vmo, cursor) = NULL
     THEN /\ cursor' = cursor + 1
          /\ UNCHANGED <<pc, parsed_nodes_, sweep, result, maxRead, nAcc>>
     ELSE LET r == Visit(parsed_nodes_, vmo, cursor)
          IN /\ cursor' = cursor + OrderToUnits(GetOrder(vmo, cursor))
             /\ parsed_nodes_' = r.pn
             /\ IF r.ub
                THEN /\ \E past \in 1..2 :
                          maxRead' = Max(r.readEnd, SizeBytes(vmo) + past * kSlotSize)
                     /\ pc' = "done"
                     /\ result' = Crash
                     /\ UNCHANGED <<sweep, nAcc>>
                ELSE /\ maxRead' = Max(maxRead, r.readEnd)
                     /\ result' = result
                     /\ IF r.cont
                        THEN UNCHANGED <<pc, sweep, nAcc>>
                        ELSE EndScan
  /\ UNCHANGED <<acqVars, snapshot_, complete_nodes, pops>>

\* ScanBlocks: one block, handed to the callback of InnerScanBlocks
ScanStep ==
  /\ pc = "scan"
  /\ cursor < Len(snapshot_)
  /\ IF GetBlock(snapshot_, cursor) = NULL
     THEN \* the declared order does not fit: skipped
          /\ cursor' = cursor + 1
          /\ UNCHANGED <<pc, parsed_nodes_, sweep, result, maxRead, nAcc>>
     ELSE LET r == Visit(parsed_nodes_, snapshot_, cursor)
          IN /\ cursor' = cursor + OrderToUnits(GetOrder(snapshot_, cursor))
             /\ parsed_nodes_' = r.pn
             /\ IF r.ub
                THEN \* the copy loop runs off the snapshot until the process dies
                     /\ \E past \in 1..2 :
                          maxRead' = Max(r.readEnd, SizeBytes(snapshot_) + past * kSlotSize)
                     /\ pc' = "done"
                     /\ result' = Crash
                     /\ UNCHANGED <<sweep, nAcc>>
                ELSE /\ maxRead' = Max(maxRead, r.readEnd)
                     /\ result' = result
                     /\ IF r.cont
                        THEN UNCHANGED <<pc, sweep, nAcc>>
                        ELSE EndScan
  /\ UNCHANGED <<acqVars, snapshot_, complete_nodes, pops>>

\* ScanBlocks reached the end of the buffer
ScanDone ==
  /\ pc = "scan"
  /\ cursor >= Len(snapshot_)
  /\ parsed_nodes_' = parsed_nodes_
  /\ EndScan
  /\ UNCHANGED <<acqVars, snapshot_, cursor, complete_nodes, result, maxRead, pops>>

\* one iteration of the for loop of Read(): the map's order is unspecified
SweepStep ==
  /\ pc = "sweep"
  /\ \E k \in sweep :
       LET node == parsed_nodes_[k] IN
       /\ sweep' = sweep \ {k}
       /\ IF ~node.initialized_
          THEN /\ parsed_nodes_' = Erase(parsed_nodes_, k)
               /\ UNCHANGED <<pc, complete_nodes, result>>
          ELSE IF is_complete(node)
          THEN IF k = 0
               THEN /\ pc' = "done"
                    /\ result' = Ok(node.hierarchy)
                    /\ UNCHANGED <<parsed_nodes_, complete_nodes>>
               ELSE /\ complete_nodes' =
                         Append(complete_nodes, [h |-> node.hierarchy, parent |-> node.parent])
                    /\ parsed_nodes_' = Erase(parsed_nodes_, k)
                    /\ UNCHANGED <<pc, result>>
          ELSE UNCHANGED <<pc, parsed_nodes_, complete_nodes, result>>
  /\ UNCHANGED <<acqVars, snapshot_, cursor, maxRead, pops, nAcc>>

\* the for loop is over
SweepDone ==
  /\ pc = "sweep"
  /\ sweep = {}
  /\ pc' = "assemble"
  /\ UNCHANGED <<acqVars, snapshot_, cursor, parsed_nodes_, sweep, complete_nodes, result,
                 maxRead, pops, nAcc>>

\* the while loop of Read(): one test of its condition, and either one
\* iteration or the error return that follows the loop
AssembleStep ==
  /\ pc = "assemble"
  /\ IF complete_nodes = << >>
     THEN \* no complete root was found
          /\ pc' = "done"
          /\ result' = Error
          /\ UNCHANGED <<parsed_nodes_, complete_nodes, pops>>
     ELSE /\ pops' = pops + 1
          /\ LET obj == complete_nodes[Len(complete_nodes)]
                 rest == SubSeq(complete_nodes, 1, Len(complete_nodes) - 1)
             IN IF obj.parent \notin DOMAIN parsed_nodes_
                THEN /\ complete_nodes' = rest
                     /\ UNCHANGED <<pc, parsed_nodes_, result>>
                ELSE LET parent == add_child(parsed_nodes_[obj.parent], obj.h)
                     IN IF is_complete(parent)
                        THEN IF obj.parent = 0
                             THEN /\ pc' = "done"
                                  /\ result' = Ok(parent.hierarchy)
                                  /\ complete_nodes' = rest
                                  /\ parsed_nodes_' =
                                       [parsed_nodes_ EXCEPT ![obj.parent] = parent]
                             ELSE /\ complete_nodes' =
                                       Append(rest, [h |-> parent.hierarchy,
                                                     parent |-> parent.parent])
                                  /\ parsed_nodes_' = Erase(parsed_nodes_, obj.parent)
                                  /\ UNCHANGED <<pc, result>>
                        ELSE /\ complete_nodes' = rest
                             /\ parsed_nodes_' =
                                  [parsed_nodes_ EXCEPT ![obj.parent] = parent]
                             /\ UNCHANGED <<pc, result>>
  /\ UNCHANGED <<acqVars, snapshot_, cursor, sweep, maxRead, nAcc>>

ReadNext ==
  \/ ReadStart
  \/ ScanStep
  \/ ScanDone
  \/ SweepStep
  \/ SweepDone
  \/ AssembleStep


(***************************************************************************)
(* Input buffers of ReadFromBuffer                                         *)
(***************************************************************************)
HeaderBlock(gen) == Block("Header", 0, 0, kMagic, gen, 0, 0)
FreeBlock == Block("Free", 0, 0, 0, 0, 0, 0)
NameBlock(len) == Block("Name", 0, len, 0, 0, 0, 0)
NodeBlock(parent, name) == Block("NodeValue", 0, parent, name, 0, 0, 0)
IntBlock(parent, name) == Block("IntValue", 0, parent, name, 7, 0, 0)
ArrayBlock(order, parent, name, entry_type, flags, count) ==
  Block("ArrayValue", order, parent, name, entry_type, flags, count)
PropertyBlock(parent, name, total, extent, flags) ==
  Block("PropertyValue", 0, parent, name, total, extent, flags)
ExtentBlock(next) == Block("Extent", 0, next, 0, 0, 0, 0)

\* a name index is 1 (the Name block of every family) or past the buffer
NameRefs == {1, BufLen}
Indices == 0..(BufLen - 1)

NodeChoices == {FreeBlock} \cup {NodeBlock(p, n) : p \in Indices, n \in NameRefs}
IntChoices == {IntBlock(p, n) : p \in Indices, n \in NameRefs}

\* trees: a Name block that fits or declares 9 bytes in a payload of 8, then
\* nodes with any parent, and value blocks before and after them
TreeBuffers ==
  { <<HeaderBlock(0), nm, first>> \o mid \o <<last>> :
      nm \in {NameBlock(2), NameBlock(9)},
      first \in NodeChoices \cup IntChoices,
      mid \in [1..(BufLen - 4) -> NodeChoices],
      last \in NodeChoices \cup IntChoices }

Filler == [1..(BufLen - 5) -> {FreeBlock}]

\* an array of order 1 in the last two units of the buffer, and arrays of
\* order 0, which have no slot
ArrayBuffers ==
  { <<HeaderBlock(0), NameBlock(2), nd>> \o fill \o <<ArrayBlock(1, p, n, e, f, c), FreeBlock>> :
      nd \in {FreeBlock, NodeBlock(0, 1)}, fill \in Filler, p \in {0, 2}, n \in NameRefs,
      e \in {0, kIntValue, kUintValue, kDoubleValue}, f \in 0..3, c \in 0..3 }
  \cup
  { <<HeaderBlock(0), NameBlock(2), ArrayBlock(0, 0, 1, e, 0, c)>> \o fill \o <<FreeBlock, FreeBlock>> :
      fill \in Filler, e \in {0, kIntValue}, c \in 0..1 }

ExtentChoices == {FreeBlock} \cup {ExtentBlock(x) : x \in {0, BufLen - 2, BufLen - 1}}

\* a string or byte-vector property of the root and the blocks its extent
\* index can name
PropertyBuffers ==
  { <<HeaderBlock(0), NameBlock(2), PropertyBlock(0, 1, total, x, f)>> \o fill \o <<e1, e2>> :
      total \in {0, 5, 8, 12, 16, 200}, x \in {1, BufLen - 2, BufLen - 1, BufLen},
      f \in {0, kBinary}, fill \in Filler, e1 \in ExtentChoices, e2 \in ExtentChoices }

\* a Name block that fits beside one that declares 9 bytes in a payload of 8,
\* and nodes and values named by the one or the other
TwoNameChoices ==
  {FreeBlock} \cup {NodeBlock(0, n) : n \in {1, 2}}
    \cup {IntBlock(p, n) : p \in {0, BufLen - 2}, n \in {1, 2}}

TwoNameBuffers ==
  { <<HeaderBlock(0), NameBlock(2), NameBlock(9)>> \o fill \o <<x, y>> :
      fill \in Filler, x \in TwoNameChoices, y \in TwoNameChoices }

\* nodes and values whose name index names the header, a free block or one
\* of themselves
MistypedChoices ==
  {NodeBlock(p, n) : p \in {0, 2}, n \in {0, 2, BufLen - 2, BufLen - 1}}
    \cup {IntBlock(p, n) : p \in {0, 2}, n \in {0, 2, BufLen - 2, BufLen - 1}}

MistypedNameBuffers ==
  { <<HeaderBlock(0), NameBlock(2), FreeBlock>> \o fill \o <<x, y>> :
      fill \in [1..(BufLen - 5) -> {FreeBlock}], x \in MistypedChoices, y \in MistypedChoices }

\* numeric values of the three types and string and byte-vector properties,
\* under the root, under a node and under an index that holds no node
ScalarChoices ==
  {Block(ty, 0, p, 1, v, 0, 0) :
     ty \in {"IntValue", "UintValue", "DoubleValue"}, p \in {0, 2, BufLen - 1}, v \in {7}}
    \cup {PropertyBlock(p, 1, 4, BufLen - 1, f) : p \in {0, 2}, f \in {0, kBinary}}

ScalarBuffers ==
  { <<HeaderBlock(0), NameBlock(2), NodeBlock(0, 1)>> \o fill \o <<x, y>> :
      fill \in [1..(BufLen - 5) -> {FreeBlock}],
      x \in ScalarChoices, y \in ScalarChoices \cup {ExtentBlock(0)} }

\* buffers Snapshot::Create refuses, and a buffer whose block 0 is no header
OddBuffers ==
  { << >>,
    <<Block("Header", 0, 0, 0, 0, 0, 0), NameBlock(2), NodeBlock(0, 1)>>,
    <<Block("Free", 0, 0, kMagic, 0, 0, 0), NameBlock(2), NodeBlock(0, 1)>>,
    <<Block("Free", 0, 0, kMagic, 0, 0, 0), NameBlock(2), IntBlock(0, 1), NodeBlock(0, 1)>>,
    <<Block("NodeValue", 0, 0, kMagic, 0, 0, 0), NameBlock(2), NodeBlock(0, 1), IntBlock(2, 1)>>,
    <<HeaderBlock(0)>> }

Buffers ==
  TreeBuffers \cup TwoNameBuffers \cup ArrayBuffers \cup PropertyBuffers \cup OddBuffers
    \cup MistypedNameBuffers \cup ScalarBuffers

\* no second reader
R2Off ==
  /\ apc2 = "off"
  /\ tries2 = 0
  /\ gen2 = 0
  /\ copy2 = << >>
  /\ snapshot2 = << >>

AcqOff ==
  /\ R2Off
  /\ wpc = "off"
  /\ wleft = 0
  /\ quiescent = << >>
  /\ apc = "off"
  /\ tries = 0
  /\ g1 = 0
  /\ copy = << >>

ReadIdle ==
  /\ cursor = 0
  /\ parsed_nodes_ = << >>
  /\ sweep = {}
  /\ complete_nodes = << >>
  /\ result = NoResult
  /\ maxRead = 0
  /\ pops = 0
  /\ nAcc = 0

\* ReadFromBuffer(buffer) for each buffer, and ReadFromSnapshot on a
\* default-constructed Snapshot
Init ==
  /\ AcqOff
  /\ ReadIdle
  /\ snapshot_ = << >>
  /\ \/ pc = "create" /\ vmo \in Buffers
     \/ pc = "read" /\ vmo = << >>

Next == Create \/ ReadNext

Spec == Init /\ [][Next]_vars


(***************************************************************************)
(* What a buffer encodes, read off the block format top-down               *)
(***************************************************************************)
\* the block indices at which the blocks of s start
RECURSIVE BlocksFrom(_, _)
BlocksFrom(s, i) ==
  IF i >= Len(s) THEN {}
  ELSE IF i + OrderToUnits(GetOrder(s, i)) > Len(s) THEN BlocksFrom(s, i + 1)
  ELSE {i} \cup BlocksFrom(s, i + OrderToUnits(GetOrder(s, i)))

BlocksOf(s) == IF Len(s) = 0 \/ GetType(s, 0) # "Header" THEN {} ELSE BlocksFrom(s, 0) \ {0}

\* index n holds a whole block whose declared length fits its payload
NameFits(s, n) ==
  /\ n \in 0..(Len(s) - 1)
  /\ n + OrderToUnits(GetOrder(s, n)) <= Len(s)
  /\ At(s, n).lo <= OrderToSize(GetOrder(s, n)) - kHeaderWordSize

NameOf(s, n) == [k \in 1..At(s, n).lo |-> n * kMinOrderSize + kHeaderWordSize + k - 1]

\* the NodeValue blocks with a name that fits
NamedNodes(s) == {i \in BlocksOf(s) : GetType(s, i) = "NodeValue" /\ NameFits(s, At(s, i).hi)}

\* the parent chain of i reaches index 0 through named nodes in at most `fuel` steps
RECURSIVE ChainReachesRoot(_, _, _)
ChainReachesRoot(s, i, fuel) ==
  IF i = 0 THEN TRUE
  ELSE IF fuel = 0 \/ i \notin NamedNodes(s) THEN FALSE
  ELSE ChainReachesRoot(s, At(s, i).lo, fuel - 1)

ReachesRoot(s, i) == ChainReachesRoot(s, i, Len(s))

\* the parent chain of i stays in named nodes for ever: it runs into a cycle
RECURSIVE ChainStaysInNodes(_, _, _)
ChainStaysInNodes(s, i, fuel) ==
  IF i = 0 \/ i \notin NamedNodes(s) THEN FALSE
  ELSE IF fuel = 0 THEN TRUE
  ELSE ChainStaysInNodes(s, At(s, i).lo, fuel - 1)

Cyclic(s, i) == ChainStaysInNodes(s, i, Len(s))

TreeNodes(s) == {i \in NamedNodes(s) : ReachesRoot(s, i)}

\* the value blocks and what each encodes
NamedValues(s) ==
  {j \in BlocksOf(s) : GetType(s, j) \in ValueTypes \cup {"PropertyValue"}
                        /\ NameFits(s, At(s, j).hi)}

\* the bytes of the extent chain that starts at e, at most `want` of them
RECURSIVE ChainBytes(_, _, _, _)
ChainBytes(s, e, want, fuel) ==
  IF want <= 0 \/ fuel = 0 \/ e \notin 0..(Len(s) - 1) THEN << >>
  ELSE IF e + OrderToUnits(GetOrder(s, e)) > Len(s) \/ GetType(s, e) # "Extent" THEN << >>
  ELSE LET cap == OrderToSize(GetOrder(s, e)) - kHeaderWordSize
           take == Min(want, cap)
       IN [k \in 1..take |-> e * kMinOrderSize + kHeaderWordSize + k - 1]
            \o ChainBytes(s, At(s, e).lo, want - take, fuel - 1)

\* the property a value block with a fitting name encodes
EncodedProperty(s, j) ==
  LET b == At(s, j)
      name == NameOf(s, b.hi)
  IN CASE b.type = "IntValue" -> Property(name, "int", <<b.a>>, "none", j)
       [] b.type = "UintValue" -> Property(name, "uint", <<b.a>>, "none", j)
       [] b.type = "DoubleValue" -> Property(name, "double", <<b.a>>, "none", j)
       [] b.type = "ArrayValue" ->
            Property(name,
                     CASE b.a = kIntValue -> "int_array"
                       [] b.a = kUintValue -> "uint_array"
                       [] OTHER -> "double_array",
                     [k \in 1..b.c |-> j * kMinOrderSize + 2 * kSlotSize + kSlotSize * (k - 1)],
                     CASE b.b = 1 -> "linear_histogram"
                       [] b.b = 2 -> "exponential_histogram"
                       [] OTHER -> "flat",
                     j)
       [] OTHER ->
            Property(name, IF b.c % 2 = 1 THEN "bytes" ELSE "string",
                     ChainBytes(s, b.b, b.a, SizeBytes(s)), "none", j)

\* a well-formed value: an array has a numeric entry type and a count its
\* block can hold, a property's extents hold its declared length
WellFormedValue(s, j) ==
  LET b == At(s, j)
  IN CASE b.type = "ArrayValue" ->
            /\ b.a \in NumericCodes
            /\ kSlotSize * b.c <= OrderToSize(b.order) - 2 * kSlotSize
       [] b.type = "PropertyValue" -> Len(ChainBytes(s, b.b, b.a, Len(s))) = b.a
       [] OTHER -> TRUE

\* a tree as a value that does not depend on the order of children and properties
RECURSIVE Canon(_)
Canon(h) ==
  [name |-> h.name, idx |-> h.idx,
   properties |-> {h.properties[k] : k \in DOMAIN h.properties},
   nproperties |-> Len(h.properties),
   children |-> {Canon(h.children[k]) : k \in DOMAIN h.children},
   nchildren |-> Len(h.children)]

\* the tree below node i that s encodes, over the value blocks in `values`
RECURSIVE Encoded(_, _, _, _)
Encoded(s, i, values, fuel) ==
  LET kids == IF fuel = 0 THEN {}
              ELSE {c \in NamedNodes(s) : At(s, c).lo = i /\ c # i}
      props == {j \in values : At(s, j).lo = i}
  IN [name |-> IF i = 0 THEN RootName ELSE NameOf(s, At(s, i).hi), idx |-> i,
      properties |-> {EncodedProperty(s, j) : j \in props},
      nproperties |-> Cardinality(props),
      children |-> {Encoded(s, c, values, fuel - 1) : c \in kids},
      nchildren |-> Cardinality(kids)]

EncodedTree(s, values) == Encoded(s, 0, values, Len(s))

\* the block indices of the nodes of a hierarchy, and of its properties
RECURSIVE NodesOf(_)
NodesOf(h) == {h.idx} \cup UNION {NodesOf(h.children[k]) : k \in DOMAIN h.children}

RECURSIVE PropertiesOf(_)
PropertiesOf(h) ==
  {h.properties[k].src : k \in DOMAIN h.properties}
    \cup UNION {PropertiesOf(h.children[k]) : k \in DOMAIN h.children}

\* s validly encodes a tree: the header at 0, a name of type Name for every
\* node and value, every parent chain reaching the root, every value well formed
ValidEncoding(s) ==
  /\ SnapshotValid(s)
  /\ GetType(s, 0) = "Header"
  /\ \A i \in BlocksOf(s) :
       LET b == At(s, i)
       IN \/ b.type \in {"Free", "Reserved", "Tombstone", "Extent"}
          \/ b.type = "Name" /\ NameFits(s, i)
          \/ /\ b.type \in {"NodeValue", "PropertyValue"} \cup ValueTypes
             /\ NameFits(s, b.hi)
             /\ GetType(s, b.hi) = "Name"
             /\ IF b.type = "NodeValue"
                THEN ReachesRoot(s, i)
                ELSE ReachesRoot(s, b.lo) /\ WellFormedValue(s, i)

Done == pc = "done"


(***************************************************************************)
(* ReadFromVmo: a writer that follows the generation-count discipline and  *)
(* Snapshot::Create on the shared VMO                                      *)
(***************************************************************************)
Generation(buffer) == At(buffer, 0).a

SetGeneration(buffer, gen) == [buffer EXCEPT ![1].a = gen]

\* what the writer stores into a unit while it holds the generation odd
WriteChoices == {FreeBlock, NodeBlock(0, 1), NodeBlock(2, 1), IntBlock(0, 1)}

\* the writer makes the generation odd before it mutates
WriterBegin ==
  /\ wpc = "idle"
  /\ wleft > 0
  /\ vmo' = SetGeneration(vmo, Generation(vmo) + 1)
  /\ wpc' = "writing"
  /\ wleft' = wleft - 1
  /\ UNCHANGED <<quiescent, apc, tries, g1, copy, snapshot_, r2Vars, readVars>>

\* one store of a mutation
WriterMutate ==
  /\ wpc = "writing"
  /\ \E i \in 2..(Len(vmo) - 1), b \in WriteChoices :
       /\ At(vmo, i) # b
       /\ vmo' = [vmo EXCEPT ![i + 1] = b]
  /\ UNCHANGED <<wpc, wleft, quiescent, apc, tries, g1, copy, snapshot_, r2Vars, readVars>>

\* the writer makes the generation even again
WriterEnd ==
  /\ wpc = "writing"
  /\ vmo' = SetGeneration(vmo, Generation(vmo) + 1)
  /\ wpc' = "idle"
  /\ quiescent' = quiescent @@ (Generation(vmo') :> vmo')
  /\ UNCHANGED <<wleft, apc, tries, g1, copy, snapshot_, r2Vars, readVars>>

WriterNext == WriterBegin \/ WriterMutate \/ WriterEnd

\* a test that forgets that an odd generation means a mutation in progress
Consistent_unchangedOnly(before, after) == before = after

\* a test that forgets to compare the two generations
Consistent_evenOnly(before, after) == before % 2 = 0

\* the test Snapshot::Create makes after a copy
Consistent(before, after) == before % 2 = 0 /\ before = after

\* a retry loop without its bound
OutOfAttempts_never(n) == FALSE

\* Snapshot::Create gives up once it has made this many attempts
OutOfAttempts(n) == n >= MaxAttempts

\* an acquisition that counts its attempts in a counter the readers share
AcquireBegin_shared ==
  /\ apc = "start"
  /\ IF OutOfAttempts(tries)
     THEN /\ apc' = "failed"
          /\ pc' = "done"
          /\ result' = Error
          /\ UNCHANGED <<tries, tries2, g1, copy>>
     ELSE /\ apc' = "copy"
          /\ tries' = tries + 1
          /\ tries2' = tries2 + 1
          /\ g1' = Generation(vmo)
          /\ copy' = << >>
          /\ UNCHANGED <<pc, result>>
  /\ UNCHANGED <<vmo, wpc, wleft, quiescent, snapshot_, apc2, gen2, copy2, snapshot2, cursor,
                 parsed_nodes_, sweep, complete_nodes, maxRead, pops, nAcc>>

\* Snapshot::Create: a new attempt reads the generation, or gives up
AcquireBegin ==
  /\ apc = "start"
  /\ IF OutOfAttempts(tries)
     THEN /\ apc' = "failed"
          /\ pc' = "done"
          /\ result' = Error
          /\ UNCHANGED <<tries, g1, copy>>
     ELSE /\ apc' = "copy"
          /\ tries' = tries + 1
          /\ g1' = Generation(vmo)
          /\ copy' = << >>
          /\ UNCHANGED <<pc, result>>
  /\ UNCHANGED <<vmo, wpc, wleft, quiescent, snapshot_, r2Vars, cursor, parsed_nodes_, sweep,
                 complete_nodes, maxRead, pops, nAcc>>

\* a copy that keeps the writer out of the buffer while it runs
AcquireCopy_locking ==
  /\ apc = "copy"
  /\ Len(copy) < Len(vmo)
  /\ copy' = Append(copy, vmo[Len(copy) + 1])
  /\ wpc' = "locked"
  /\ UNCHANGED <<vmo, wleft, quiescent, apc, tries, g1, snapshot_, r2Vars, readVars>>

\* Snapshot::Create: the copy of the buffer, one unit at a time
AcquireCopy ==
  /\ apc = "copy"
  /\ Len(copy) < Len(vmo)
  /\ copy' = Append(copy, vmo[Len(copy) + 1])
  /\ UNCHANGED <<vmo, wpc, wleft, quiescent, apc, tries, g1, snapshot_, r2Vars, readVars>>

\* Snapshot::Create: the generation is read again; ReadFromVmo hands the
\* snapshot to ReadFromSnapshot
AcquireCheck ==
  /\ apc = "copy"
  /\ Len(copy) = Len(vmo)
  /\ IF Consistent(g1, Generation(vmo))
     THEN /\ apc' = "done"
          /\ snapshot_' = copy
          /\ pc' = "read"
     ELSE /\ apc' = "start"
          /\ UNCHANGED <<snapshot_, pc>>
  /\ UNCHANGED <<vmo, wpc, wleft, quiescent, tries, g1, copy, r2Vars, cursor, parsed_nodes_,
                 sweep, complete_nodes, result, maxRead, pops, nAcc>>

AcquireNext == AcquireBegin \/ AcquireCopy \/ AcquireCheck

VmoStart ==
  <<HeaderBlock(0), NameBlock(2)>> \o [i \in 1..(VmoLen - 2) |-> FreeBlock]

InitVmo ==
  /\ vmo = VmoStart
  /\ wpc = "idle"
  /\ wleft = MaxWrites
  /\ quiescent = (0 :> VmoStart)
  /\ apc = "start"
  /\ tries = 0
  /\ g1 = 0
  /\ copy = << >>
  /\ snapshot_ = << >>
  /\ R2Off
  /\ pc = "acquire"
  /\ ReadIdle

NextVmo ==
  \/ WriterBegin
  \/ WriterMutate
  \/ WriterEnd
  \/ AcquireBegin
  \/ AcquireCopy
  \/ AcquireCheck
  \/ ReadStart
  \/ ScanStep
  \/ ScanDone
  \/ SweepStep
  \/ SweepDone
  \/ AssembleStep

SpecVmo == InitVmo /\ [][NextVmo]_vars


\* the state of the writer and the shared buffer
sharedVars == <<vmo, wpc, wleft, quiescent>>

\* the state of the first reader
r1Vars == <<apc, tries, g1, copy, snapshot_, readVars>>

\* the second reader's Snapshot::Create: a new attempt, or giving up
Acquire2Begin ==
  /\ apc2 = "start"
  /\ IF OutOfAttempts(tries2)
     THEN /\ apc2' = "failed"
          /\ UNCHANGED <<tries2, gen2, copy2>>
     ELSE /\ apc2' = "copy"
          /\ tries2' = tries2 + 1
          /\ gen2' = Generation(vmo)
          /\ copy2' = << >>
  /\ UNCHANGED <<sharedVars, r1Vars, snapshot2>>

\* the second reader's copy of the buffer, one unit at a time
Acquire2Copy ==
  /\ apc2 = "copy"
  /\ Len(copy2) < Len(vmo)
  /\ copy2' = Append(copy2, vmo[Len(copy2) + 1])
  /\ UNCHANGED <<sharedVars, r1Vars, apc2, tries2, gen2, snapshot2>>

\* the second reader reads the generation again
Acquire2Check ==
  /\ apc2 = "copy"
  /\ Len(copy2) = Len(vmo)
  /\ IF Consistent(gen2, Generation(vmo))
     THEN /\ apc2' = "done"
          /\ snapshot2' = copy2
     ELSE /\ apc2' = "start"
          /\ UNCHANGED snapshot2
  /\ UNCHANGED <<sharedVars, r1Vars, tries2, gen2, copy2>>

Acquire2Next == Acquire2Begin \/ Acquire2Copy \/ Acquire2Check

\* two calls of ReadFromVmo on the same VMO, and the writer
InitTwo ==
  /\ vmo = VmoStart
  /\ wpc = "idle"
  /\ wleft = TwoReaderWrites
  /\ quiescent = (0 :> VmoStart)
  /\ apc = "start"
  /\ tries = 0
  /\ g1 = 0
  /\ copy = << >>
  /\ snapshot_ = << >>
  /\ apc2 = "start"
  /\ tries2 = 0
  /\ gen2 = 0
  /\ copy2 = << >>
  /\ snapshot2 = << >>
  /\ pc = "acquire"
  /\ ReadIdle

NextTwo ==
  \/ WriterBegin
  \/ WriterMutate
  \/ WriterEnd
  \/ AcquireBegin
  \/ AcquireCopy
  \/ AcquireCheck
  \/ Acquire2Begin
  \/ Acquire2Copy
  \/ Acquire2Check
  \/ ReadStart
  \/ ScanStep
  \/ ScanDone
  \/ SweepStep
  \/ SweepDone
  \/ AssembleStep

SpecTwo == InitTwo /\ [][NextTwo]_vars

\* ReadFromBuffer, ReadFromSnapshot and ReadFromVmo side by side
InitAll == Init \/ InitVmo

NextAll ==
  \/ Create
  \/ WriterBegin
  \/ WriterMutate
  \/ WriterEnd
  \/ AcquireBegin
  \/ AcquireCopy
  \/ AcquireCheck
  \/ ReadStart
  \/ ScanStep
  \/ ScanDone
  \/ SweepStep
  \/ SweepDone
  \/ AssembleStep

SpecAll == InitAll /\ [][NextAll]_vars


(***************************************************************************)
(* Properties                                                              *)
(***************************************************************************)
AcquireRank ==
  LET k == Len(vmo) + 2
  IN CASE apc = "start" -> (MaxAttempts - tries) * k + k - 1
       [] apc = "copy" -> (MaxAttempts - tries) * k + k + Len(vmo) - Len(copy)
       [] OTHER -> 0

RankBase == 8 * (BufLen + VmoLen)

ReadRank ==
  CASE pc \in {"create", "acquire"} -> 5 * RankBase
    [] pc = "read" -> 4 * RankBase
    [] pc = "scan" -> 3 * RankBase + Len(snapshot_) - cursor + 1
    [] pc = "sweep" -> 2 * RankBase + Cardinality(sweep) + 1
    [] pc = "assemble" -> Len(complete_nodes) + Cardinality(DOMAIN parsed_nodes_) + 1
    [] OTHER -> 0

\* the value blocks whose name index names no block or a block whose declared
\* length does not fit its payload
BadNamedValues(s) ==
  {j \in BlocksOf(s) : GetType(s, j) \in ValueTypes \cup {"PropertyValue"}
                        /\ ~NameFits(s, At(s, j).hi)}

\* the NodeValue blocks the scan drops (their name fails validation) though
\* their declared parent is a node of the tree
DroppedChildren(s) ==
  {i \in BlocksOf(s) : /\ GetType(s, i) = "NodeValue"
                        /\ ~NameFits(s, At(s, i).hi)
                        /\ At(s, i).lo # i
                        /\ ReachesRoot(s, At(s, i).lo)}

CyclicNodes(s) == {i \in BlocksOf(s) : Cyclic(s, i)}

\* C1: under the generation-count discipline, a snapshot that Snapshot::Create
\* returns equals the contents the shared buffer had at the instant its
\* generation began, an instant at which no mutation was in progress; it never
\* mixes units of two generations.
C1_SnapshotIsOneQuiescentState ==
  apc = "done" =>
    /\ g1 % 2 = 0
    /\ g1 \in DOMAIN quiescent
    /\ snapshot_ = quiescent[g1]

\* a snapshot of a generation the writer produced was returned after a retry,
\* and the writer has gone on since
C1_Witness ==
  /\ apc = "done"
  /\ g1 >= 2
  /\ tries >= 2
  /\ At(snapshot_, 2) # FreeBlock
  /\ Generation(vmo) > g1

\* C2: Snapshot::Create returns a snapshot only in a step in which the
\* generation read before the copy is even and equals the generation read after
\* it; an attempt that saw an odd or a changed generation is not returned.
C2_ReturnsOnlyConsistentAttempt ==
  [][/\ (apc' = "done" /\ apc # "done") =>
          (g1 % 2 = 0 /\ Generation(vmo) = g1 /\ snapshot_' = copy)
     /\ (apc = "copy" /\ Len(copy) = Len(vmo) /\ apc' # "copy"
           /\ (g1 % 2 = 1 \/ Generation(vmo) # g1)) =>
          (apc' = "start" /\ snapshot_' = snapshot_)]_vars

\* the last allowed attempt was returned while the writer was mutating again
C2_Witness ==
  /\ apc = "done"
  /\ tries = MaxAttempts
  /\ wpc = "writing"
  /\ Generation(vmo) = g1 + 1

\* C3: Snapshot::Create makes at most MaxAttempts attempts, each of its steps
\* brings it closer to its end whatever the writer does, it is never blocked,
\* and when the attempts are used up it returns an error.
C3_AcquireTerminates ==
  /\ [](tries <= MaxAttempts)
  /\ [](apc \in {"start", "copy"} => ENABLED AcquireNext)
  /\ [](apc = "failed" => (tries = MaxAttempts /\ result = Error /\ snapshot_ = << >>))
  /\ [][AcquireNext => (AcquireRank' < AcquireRank /\ AcquireRank' >= 0)]_vars

\* every attempt was spoiled by the writer and the error came back
C3_Witness ==
  /\ apc = "failed"
  /\ pc = "done"
  /\ result = Error
  /\ Generation(vmo) >= 2

\* C4: Read() on a buffer that validly encodes a tree returns that tree: the
\* same names, the same children under each node, the same properties on each
\* node.
C4_RoundTrip ==
  (Done /\ ValidEncoding(vmo)) =>
    /\ result.status = "ok"
    /\ Canon(result.h) = EncodedTree(vmo, NamedValues(vmo))

\* the accumulators still in the map or on the stack
Pending == Len(complete_nodes) + Cardinality(DOMAIN parsed_nodes_)

\* C5: Read() terminates on every snapshot: every step brings it closer to its
\* end, and the while loop runs at most once per accumulator the scan created,
\* because every iteration takes one accumulator off the stack or out of the
\* map for good.
C5_ReadTerminates ==
  [][/\ ReadRank' < ReadRank
     /\ ReadRank' >= 0
     /\ pops' <= nAcc'
     /\ (pc = "sweep" \/ pc = "assemble") => (pops' + Pending' <= nAcc')
     /\ (pc = "assemble" /\ pops' > pops) =>
          (pops' = pops + 1 /\ (Pending' = Pending - 1 \/ Done'))]_vars

\* Read() ended after running the while loop on a snapshot with a parent cycle
\* and a parent index that names no node
C5_Witness ==
  /\ Done
  /\ pops >= 1
  /\ CyclicNodes(snapshot_) # {}
  /\ \E i \in NamedNodes(snapshot_) :
       At(snapshot_, i).lo \notin NamedNodes(snapshot_) \cup {0}

\* C6: a named node whose parent chain runs into a cycle is in no returned
\* Hierarchy, and Read() still returns the root with every node whose chain
\* reaches index 0.
C6_CyclesExcluded ==
  (Done /\ CyclicNodes(snapshot_) # {}) =>
    /\ result.status = "ok"
    /\ NodesOf(result.h) \cap CyclicNodes(snapshot_) = {}
    /\ NodesOf(result.h) = {0} \cup TreeNodes(snapshot_)

\* a two-node cycle beside a child of the root
C6_Witness ==
  /\ Done
  /\ result.status = "ok"
  /\ Len(result.h.children) = 1
  /\ \E i \in CyclicNodes(snapshot_) : At(snapshot_, i).lo # i

C8_BadNameDropsValue ==
  /\ \A k \in DOMAIN parsed_nodes_ :
       \A m \in DOMAIN parsed_nodes_[k].hierarchy.properties :
         parsed_nodes_[k].hierarchy.properties[m].src \notin BadNamedValues(snapshot_)
  /\ (Done /\ BadNamedValues(snapshot_) # {}) =>
       /\ result.status = "ok"
       /\ PropertiesOf(result.h) \cap BadNamedValues(snapshot_) = {}
       /\ Canon(result.h) = EncodedTree(snapshot_, NamedValues(snapshot_))

\* a value whose Name block declares too long a name was dropped beside a
\* node that was kept
C8_Witness ==
  /\ Done
  /\ result.status = "ok"
  /\ \E j \in BadNamedValues(snapshot_) :
       /\ At(snapshot_, j).hi < Len(snapshot_)
       /\ At(snapshot_, j).lo = 0
  /\ Len(result.h.children) >= 1

\* C9: Read() ends with an error or a Hierarchy, and every byte it reads lies
\* inside the snapshot.
C9_ReadsStayInBounds ==
  /\ Done => result.status \in {"ok", "error"}
  /\ maxRead <= SizeBytes(snapshot_)

\* C10: a snapshot with the header block and no NodeValue or value block gives
\* the Hierarchy named "root" without properties and without children.
C10_MinimalTree ==
  (/\ Done
   /\ SnapshotValid(vmo)
   /\ GetType(vmo, 0) = "Header"
   /\ \A i \in BlocksOf(vmo) : GetType(vmo, i) \in {"Free", "Name"}) =>
    /\ result.status = "ok"
    /\ result.h.name = <<114, 111, 111, 116>>
    /\ result.h.properties = << >>
    /\ result.h.children = << >>

\* the buffer of one unit, the header alone, was read
C10_Witness ==
  /\ Done
  /\ Len(snapshot_) = 1
  /\ GetType(snapshot_, 0) = "Header"
  /\ result.status = "ok"

\* the payloads, whole and in chain order, of the extents the chain that
\* starts at e runs through before it ends or comes back to one of them
RECURSIVE ChainPayloads(_, _, _)
ChainPayloads(s, e, seen) ==
  IF e \notin 0..(Len(s) - 1) \/ e \in seen THEN << >>
  ELSE IF e + OrderToUnits(GetOrder(s, e)) > Len(s) \/ GetType(s, e) # "Extent" THEN << >>
  ELSE LET cap == OrderToSize(GetOrder(s, e)) - kHeaderWordSize
       IN [k \in 1..cap |-> e * kMinOrderSize + kHeaderWordSize + k - 1]
            \o ChainPayloads(s, At(s, e).lo, seen \cup {e})

\* the named property blocks that declare more bytes than their first extent
\* holds and whose chain of extents holds at least that many
LongProperties(s) ==
  {j \in BlocksOf(s) :
     /\ GetType(s, j) = "PropertyValue"
     /\ NameFits(s, At(s, j).hi)
     /\ At(s, j).b \in 0..(Len(s) - 1)
     /\ Len(ChainPayloads(s, At(s, j).b, {})) >= At(s, j).a
     /\ At(s, j).a > OrderToSize(GetOrder(s, At(s, j).b)) - kHeaderWordSize}

\* every property an accumulator holds, with the index of the accumulator
AttachedProperties ==
  UNION {{[parent |-> k, p |-> parsed_nodes_[k].hierarchy.properties[m]] :
            m \in DOMAIN parsed_nodes_[k].hierarchy.properties} :
         k \in DOMAIN parsed_nodes_}

\* C11: a string property that declares more bytes than one extent holds and
\* whose chain of extents holds that many is attached as one value: the
\* payloads of the extents in chain order, cut to the declared total length.
C11_ExtentChainConcatenated ==
  /\ \A x \in AttachedProperties :
       x.p.src \in LongProperties(snapshot_) =>
         LET b == At(snapshot_, x.p.src)
         IN /\ Len(x.p.value) = b.a
            /\ x.p.value = SubSeq(ChainPayloads(snapshot_, b.b, {}), 1, b.a)
            /\ x.parent = b.lo
  /\ (Done /\ result.status = "ok") =>
       \A j \in LongProperties(snapshot_) :
         At(snapshot_, j).lo = 0 =>
           \E m \in DOMAIN result.h.properties : result.h.properties[m].src = j

\* a string of 12 bytes came back from two extents of 8 bytes
C11_Witness ==
  /\ Done
  /\ result.status = "ok"
  /\ \E m \in DOMAIN result.h.properties :
       LET p == result.h.properties[m]
       IN /\ p.src \in LongProperties(snapshot_)
          /\ p.kind = "string"
          /\ Len(p.value) = 12
          /\ p.value[8] = PayloadOffset(BufLen - 2) + 7
          /\ p.value[9] = PayloadOffset(BufLen - 1)

\* the property blocks the scan visits
PropertyBlocks(s) == {j \in BlocksOf(s) : GetType(s, j) = "PropertyValue"}

\* C12: for every property block and every chain of extents, one that loops
\* included, the extent loop ends within one iteration per 8 bytes of the
\* snapshot, and the value it assembles has at most the declared total length
\* and at most the snapshot's size in bytes.
C12_ExtentWalkBounded ==
  /\ \A j \in PropertyBlocks(snapshot_) :
       LET b == At(snapshot_, j)
           n == ExtentIterations(snapshot_, GetBlock(snapshot_, b.b),
                                 Min(SizeBytes(snapshot_), b.a), 2 * Len(snapshot_))
       IN n # NULL /\ n * kSlotSize < Min(SizeBytes(snapshot_), b.a) + kSlotSize
  /\ \A x \in AttachedProperties :
       x.p.src \in PropertyBlocks(snapshot_) =>
         /\ Len(x.p.value) <= At(snapshot_, x.p.src).a
         /\ Len(x.p.value) <= SizeBytes(snapshot_)

\* a chain of extents that loops was followed until the size of the snapshot
\* was reached, short of the declared length
C12_Witness ==
  /\ Done
  /\ result.status = "ok"
  /\ \E m \in DOMAIN result.h.properties :
       LET p == result.h.properties[m]
           b == At(snapshot_, p.src)
       IN /\ p.src \in PropertyBlocks(snapshot_)
          /\ b.a > SizeBytes(snapshot_)
          /\ Len(p.value) = SizeBytes(snapshot_)
          /\ Len(ChainPayloads(snapshot_, b.b, {})) < Len(p.value)


\* the NodeValue blocks whose name fails validation
BadNamedNodes(s) ==
  {i \in BlocksOf(s) : GetType(s, i) = "NodeValue" /\ ~NameFits(s, At(s, i).hi)}

\* the ArrayValue blocks that declare more entries than their block has slots
OversizedArrays(s) ==
  {j \in BlocksOf(s) :
     /\ GetType(s, j) = "ArrayValue"
     /\ kSlotSize * At(s, j).c > OrderToSize(GetOrder(s, j)) - 2 * kSlotSize}

\* the blocks that fail a validation: a name that does not validate, an
\* entry count beyond the capacity, a parent index outside the buffer
OffendingBlocks(s) ==
  BadNamedNodes(s) \cup BadNamedValues(s) \cup OversizedArrays(s)
    \cup {j \in BlocksOf(s) :
            /\ GetType(s, j) \in {"NodeValue", "PropertyValue"} \cup ValueTypes
            /\ At(s, j).lo >= Len(s)}

\* C13: a block that fails a validation is dropped without a report: the scan
\* goes on to the end of the snapshot, Read() returns a Hierarchy, not an
\* error, and the Hierarchy holds nothing of the block.
C13_ValidationFailureNotSurfaced ==
  (/\ Len(snapshot_) > 0
   /\ GetType(snapshot_, 0) = "Header"
   /\ OffendingBlocks(snapshot_) # {}) =>
    /\ pc \in {"sweep", "assemble"} => cursor >= Len(snapshot_)
    /\ Done =>
         /\ result.status = "ok"
         /\ NodesOf(result.h) \cap OffendingBlocks(snapshot_) = {}
         /\ PropertiesOf(result.h) \cap OffendingBlocks(snapshot_) = {}

\* nothing was scanned and no accumulator was made
Untouched ==
  /\ cursor = 0
  /\ parsed_nodes_ = << >>
  /\ sweep = {}
  /\ complete_nodes = << >>
  /\ maxRead = 0
  /\ pops = 0
  /\ nAcc = 0

\* C14: when Snapshot::Create gives up on the VMO or refuses the buffer, or
\* Read() is handed an invalid snapshot, the caller gets the error, which has
\* no payload, and no block was scanned and no accumulator made; nothing is
\* scanned before the snapshot is known to be valid.
C14_FailureReturnsErrorUnscanned ==
  /\ pc \in {"create", "acquire", "read"} => Untouched
  /\ apc = "failed" => (Done /\ result = Error /\ Untouched)
  /\ (/\ apc = "off"
      /\ pc \notin {"create", "read"}
      /\ (Len(vmo) = 0 \/ At(vmo, 0).hi # kMagic)) =>
       (Done /\ result = Error /\ Untouched)
  /\ (pc \notin {"create", "acquire", "read"} /\ Len(snapshot_) = 0) =>
       (Done /\ result = Error /\ Untouched)

\* a buffer of three units whose header lacks the magic number was refused
C14_Witness ==
  /\ Done
  /\ result = Error
  /\ apc = "off"
  /\ Len(vmo) = 3
  /\ At(vmo, 0).hi # kMagic
  /\ At(vmo, 2).type = "NodeValue"

\* the nodes of a sequence of hierarchies, counted with repetition
RECURSIVE CountNodes(_)
CountNodes(hs) ==
  IF hs = << >> THEN 0
  ELSE 1 + CountNodes(Head(hs).children) + CountNodes(Tail(hs))

\* the nodes of the hierarchies of the accumulators with these keys
RECURSIVE CountIn(_, _)
CountIn(pn, keys) ==
  IF keys = {} THEN 0
  ELSE LET k == CHOOSE x \in keys : TRUE
       IN CountNodes(<<pn[k].hierarchy>>) + CountIn(pn, keys \ {k})

\* every child hangs under the node its block declares as parent
RECURSIVE LinksDeclared(_, _)
LinksDeclared(s, h) ==
  \A m \in DOMAIN h.children :
    /\ h.children[m].idx \in 1..(Len(s) - 1)
    /\ At(s, h.children[m].idx).lo = h.idx
    /\ LinksDeclared(s, h.children[m])

\* C15: the Hierarchy Read() returns is a tree: a block index gives at most one
\* node of it, every node hangs once, under the one parent its block declares,
\* and no node is below itself; during the reconstruction no node is held by
\* two accumulators or by an accumulator and the stack.
C15_ResultIsTree ==
  /\ (Done /\ result.status = "ok") =>
       /\ CountNodes(<<result.h>>) = Cardinality(NodesOf(result.h))
       /\ result.h.idx = 0
       /\ LinksDeclared(snapshot_, result.h)
  /\ pc \in {"scan", "sweep", "assemble"} =>
       CountIn(parsed_nodes_, DOMAIN parsed_nodes_)
         + CountNodes([m \in DOMAIN complete_nodes |-> complete_nodes[m].h])
       = Cardinality(UNION ({NodesOf(parsed_nodes_[k].hierarchy) : k \in DOMAIN parsed_nodes_}
                             \cup {NodesOf(complete_nodes[m].h) : m \in DOMAIN complete_nodes}))

\* a tree two levels deep came back from a buffer that also holds a node that
\* is its own parent or a parent index that names no node
C15_Witness ==
  /\ Done
  /\ result.status = "ok"
  /\ \E m \in DOMAIN result.h.children : Len(result.h.children[m].children) >= 1
  /\ \E i \in NamedNodes(snapshot_) : i \notin NodesOf(result.h)

\* the parent indices that blocks declare
ParentRefs(s) ==
  {At(s, j).lo : j \in NamedNodes(s) \cup
                   {v \in BlocksOf(s) : GetType(s, v) \in ValueTypes \cup {"PropertyValue"}}}

\* the indices with an accumulator that no NodeValue block initializes
Phantoms(s) == ParentRefs(s) \ (NamedNodes(s) \cup {0})

\* C16: every node of the returned Hierarchy but the root comes from a
\* NodeValue block with a valid name; an accumulator made only because a block
\* names its index as parent is erased before the assembly, and neither it nor
\* a property attached to it nor a node that declares it as parent is in the
\* result.
C16_OnlyInitializedNodes ==
  /\ pc = "assemble" => DOMAIN parsed_nodes_ \cap Phantoms(snapshot_) = {}
  /\ (Done /\ result.status = "ok") =>
       /\ NodesOf(result.h) \ {0} \subseteq NamedNodes(snapshot_)
       /\ NodesOf(result.h) \cap Phantoms(snapshot_) = {}
       /\ \A j \in PropertiesOf(result.h) : At(snapshot_, j).lo \notin Phantoms(snapshot_)
       /\ \A i \in NodesOf(result.h) \ {0} : At(snapshot_, i).lo \notin Phantoms(snapshot_)

\* a value and a node both declared a parent index that holds no node, and
\* the root came back with a child
C16_Witness ==
  /\ Done
  /\ result.status = "ok"
  /\ Len(result.h.children) >= 1
  /\ \E k \in Phantoms(snapshot_) :
       /\ \E i \in NamedNodes(snapshot_) : At(snapshot_, i).lo = k
       /\ \E j \in NamedValues(snapshot_) : At(snapshot_, j).lo = k

\* C17: an ArrayValue block that declares more entries than its block has
\* slots is dropped whole: no accumulator gets a property of it, none of its
\* entries is read, and the scan goes on to the blocks after it.
C17_OversizedArrayDropped ==
  OversizedArrays(snapshot_) # {} =>
    /\ \A x \in AttachedProperties : x.p.src \notin OversizedArrays(snapshot_)
    /\ Done => /\ result.status = "ok"
               /\ PropertiesOf(result.h) \cap OversizedArrays(snapshot_) = {}
    /\ maxRead <= SizeBytes(snapshot_)

\* the named NodeValue blocks before the cursor that declare k as parent
ScannedChildren(s, k, upto) ==
  {c \in NamedNodes(s) : c < upto /\ At(s, c).lo = k /\ c # k}

\* C18: during the scan and at its end, the children_count of every
\* accumulator is the number of NodeValue blocks scanned so far that have a
\* valid name, declare its index as parent and sit at another index; value
\* blocks add nothing to it, and an index without accumulator has no such block.
C18_ChildrenCountIsNamedChildren ==
  /\ pc = "scan" =>
       /\ \A k \in DOMAIN parsed_nodes_ :
            parsed_nodes_[k].children_count
              = Cardinality(ScannedChildren(snapshot_, k, cursor))
       /\ \A k \in ParentRefs(snapshot_) \ DOMAIN parsed_nodes_ :
            ScannedChildren(snapshot_, k, cursor) = {}
  /\ pc = "sweep" =>
       \A k \in DOMAIN parsed_nodes_ :
         parsed_nodes_[k].children_count
           = Cardinality(ScannedChildren(snapshot_, k, Len(snapshot_)))

\* the scan ended with two children counted for the root, which also got a
\* property from a value block
C18_Witness ==
  /\ pc = "sweep"
  /\ 0 \in DOMAIN parsed_nodes_
  /\ parsed_nodes_[0].children_count = 2
  /\ Len(parsed_nodes_[0].hierarchy.properties) = 1

\* C19: once Snapshot::Create has returned a snapshot, the writer's steps
\* change neither the snapshot nor any state of Read(), the snapshot stays as
\* returned, and the Hierarchy Read() returns is the tree the snapshot's bytes
\* encode, whatever the shared buffer holds by then.
C19_ReadDependsOnSnapshotOnly ==
  /\ []((apc = "done" /\ Done) =>
          /\ result.status = "ok"
          /\ Canon(result.h) = EncodedTree(snapshot_, NamedValues(snapshot_)))
  /\ [][apc = "done" => snapshot_' = snapshot_]_vars
  /\ [][WriterNext => UNCHANGED <<snapshot_, readVars>>]_vars

\* Read() returned a tree with a child while the shared buffer already held
\* other blocks than the snapshot
C19_Witness ==
  /\ apc = "done"
  /\ Done
  /\ result.status = "ok"
  /\ Len(result.h.children) >= 1
  /\ Generation(vmo) > Generation(snapshot_)
  /\ \E i \in 2..(Len(vmo) - 1) : At(vmo, i) # At(snapshot_, i)

\* C20: with two readers on the same shared buffer, the writer together with
\* either reader behaves as it does without the other reader: every step
\* either leaves the writer, the buffer and that reader as they are or is a
\* step of the writer or of that reader; no step of a reader changes the
\* buffer or the other reader's state, no reader waits for the other, and
\* each reader gets what it gets alone: the buffer of a quiescent generation,
\* or the error after MaxAttempts attempts.
C20_ReadersIndependent ==
  /\ [][WriterNext \/ AcquireNext \/ ReadNext]_<<sharedVars, r1Vars>>
  /\ [][WriterNext \/ Acquire2Next]_<<sharedVars, r2Vars>>
  /\ [][(AcquireNext \/ ReadNext) => UNCHANGED <<sharedVars, r2Vars>>]_vars
  /\ [][Acquire2Next => UNCHANGED <<sharedVars, r1Vars>>]_vars
  /\ [](apc \in {"start", "copy"} => ENABLED AcquireNext)
  /\ [](apc2 \in {"start", "copy"} => ENABLED Acquire2Next)
  /\ [](apc = "done" => (g1 \in DOMAIN quiescent /\ snapshot_ = quiescent[g1]))
  /\ [](apc2 = "done" => (gen2 \in DOMAIN quiescent /\ snapshot2 = quiescent[gen2]))
  /\ [](apc = "failed" => tries = MaxAttempts)
  /\ [](apc2 = "failed" => tries2 = MaxAttempts)

\* both readers came back with a snapshot, of different generations, the
\* first after one attempt and the second after a retry
C20_Witness ==
  /\ apc = "done"
  /\ Done
  /\ result.status = "ok"
  /\ apc2 = "done"
  /\ tries = 1
  /\ tries2 = 2
  /\ snapshot_ # snapshot2

\* C21: no step of a reader (acquisition, scan, sweep, assembly) changes the
\* shared buffer, its generation count or the writer's state, and the writer
\* is never kept waiting: whether it can begin, store or end a mutation
\* depends on its own state alone, whatever the readers are doing.
C21_ReadersNeverBlockWriter ==
  /\ [][(AcquireNext \/ Acquire2Next \/ ReadNext) =>
          (/\ vmo' = vmo
           /\ Generation(vmo') = Generation(vmo)
           /\ UNCHANGED <<wpc, wleft, quiescent>>)]_vars
  /\ []((wpc = "idle" /\ wleft > 0) => ENABLED WriterBegin)
  /\ [](wpc = "writing" => (ENABLED WriterMutate /\ ENABLED WriterEnd))
  /\ [](wpc \in {"idle", "writing"})

\* the writer is in the middle of a mutation while one reader scans its
\* snapshot and the other is half way through its copy
C21_Witness ==
  /\ wpc = "writing"
  /\ pc = "scan"
  /\ cursor >= 1
  /\ apc2 = "copy"
  /\ Len(copy2) >= 1
  /\ Len(copy2) < Len(vmo)
  /\ Generation(vmo) > gen2

\* every node of h holds as many children as NodeValue blocks with a valid
\* name declare it as parent
RECURSIVE AllChildrenAttached(_, _)
AllChildrenAttached(s, h) ==
  /\ Len(h.children) = Cardinality(ScannedChildren(s, h.idx, Len(s)))
  /\ \A m \in DOMAIN h.children : AllChildrenAttached(s, h.children[m])

\* C22: when Read() succeeds, the nodes of the Hierarchy are the root and
\* exactly the NodeValue blocks with a valid name whose parent chain reaches
\* index 0 through such blocks; each hangs under the parent its block
\* declares, none is missing, and every node of the result (and every entry
\* pushed on the stack on the way) holds all the children counted for it.
C22_ResultIsReachableNodes ==
  /\ (Done /\ result.status = "ok") =>
       /\ NodesOf(result.h) = {0} \cup TreeNodes(snapshot_)
       /\ LinksDeclared(snapshot_, result.h)
       /\ AllChildrenAttached(snapshot_, result.h)
       /\ CountNodes(<<result.h>>) = 1 + Cardinality(TreeNodes(snapshot_))
  /\ pc \in {"sweep", "assemble"} =>
       \A m \in DOMAIN complete_nodes :
         AllChildrenAttached(snapshot_, complete_nodes[m].h)

\* three named nodes, all reaching the root, came back: two under the root
\* and one under one of those
C22_Witness ==
  /\ Done
  /\ result.status = "ok"
  /\ Cardinality(TreeNodes(snapshot_)) = 3
  /\ Len(result.h.children) = 2
  /\ \E m \in 1..2 : Len(result.h.children[m].children) = 1

\* C23: on every snapshot that passes the validity check of Read(), the root
\* at index 0 becomes complete and Read() returns a Hierarchy: Read() never
\* ends otherwise, and the while loop is never left for the error return that
\* follows it.
C23_ValidSnapshotYieldsHierarchy ==
  /\ (Done /\ Len(snapshot_) > 0) => result.status = "ok"
  /\ pc = "assemble" => complete_nodes # << >>

\* the block indices of the entries on the stack
StackIdx(cn) == {cn[m].h.idx : m \in DOMAIN cn}

\* the accumulators and stack entries that hold node i as a direct child
HoldersOf(pn, cn, i) ==
  Cardinality({k \in DOMAIN pn :
                 \E m \in DOMAIN pn[k].hierarchy.children :
                   pn[k].hierarchy.children[m].idx = i})
  + Cardinality({n \in DOMAIN cn :
                   \E m \in DOMAIN cn[n].h.children : cn[n].h.children[m].idx = i})

\* C24: in the sweep and the while loop of Read() an accumulator leaves the
\* map in the very step that pushes it and the map never grows again, so it
\* is pushed at most once; a popped Hierarchy is attached to at most one
\* parent, the one its entry names, and a popped entry whose parent is not in
\* the map is dropped with every accumulator left as it was.
C24_PushedOnceAndErased ==
  [][(pc \in {"sweep", "assemble"}) =>
       /\ DOMAIN parsed_nodes_' \subseteq DOMAIN parsed_nodes_
       /\ \A k \in StackIdx(complete_nodes') \ StackIdx(complete_nodes) :
            /\ k \in DOMAIN parsed_nodes_
            /\ k \notin DOMAIN parsed_nodes_'
            /\ complete_nodes'[Len(complete_nodes')].h.idx = k
            /\ complete_nodes'[Len(complete_nodes')].parent = parsed_nodes_[k].parent
       /\ StackIdx(complete_nodes') \cap DOMAIN parsed_nodes_' = {}
       /\ Cardinality(StackIdx(complete_nodes')) = Len(complete_nodes')
       /\ (pc = "assemble" /\ complete_nodes # << >>) =>
            LET obj == complete_nodes[Len(complete_nodes)]
                rest == SubSeq(complete_nodes, 1, Len(complete_nodes) - 1)
            IN /\ obj.h.idx \notin StackIdx(complete_nodes')
               /\ HoldersOf(parsed_nodes_, complete_nodes, obj.h.idx) = 0
               /\ HoldersOf(parsed_nodes_', complete_nodes', obj.h.idx)
                    = (IF obj.parent \in DOMAIN parsed_nodes_ THEN 1 ELSE 0)
               /\ Done' => \E m \in DOMAIN result'.h.children :
                             result'.h.children[m] = obj.h
               /\ \A k \in DOMAIN parsed_nodes_' \ {obj.parent} :
                    parsed_nodes_'[k] = parsed_nodes_[k]
               /\ obj.parent \notin DOMAIN parsed_nodes_ =>
                    /\ parsed_nodes_' = parsed_nodes_
                    /\ complete_nodes' = rest
                    /\ ~Done']_vars

\* Read() returned a root with a child after the while loop popped a node
\* that names itself as parent: that entry found no parent in the map
C24_Witness ==
  /\ Done
  /\ result.status = "ok"
  /\ pops >= 2
  /\ Len(result.h.children) >= 1
  /\ \E i \in NamedNodes(snapshot_) : At(snapshot_, i).lo = i

\* the accumulators InnerScanBlocks leaves behind when it scans s from `c` on,
\* and whether the scan ran into the copy with a null end pointer
RECURSIVE ScanFrom(_, _, _)
ScanFrom(pn, s, c) ==
  IF c >= Len(s) THEN [pn |-> pn, ub |-> FALSE]
  ELSE IF GetBlock(s, c) = NULL THEN ScanFrom(pn, s, c + 1)
  ELSE LET r == Visit(pn, s, c)
       IN IF r.ub THEN [pn |-> r.pn, ub |-> TRUE]
          ELSE IF ~r.cont THEN [pn |-> r.pn, ub |-> FALSE]
          ELSE ScanFrom(r.pn, s, c + OrderToUnits(GetOrder(s, c)))

ScanOf(s) == ScanFrom((0 :> InitializeNode(NewParsedNode(0), RootName, 0)), s, 0)

\* the tree below index i that a set of accumulators stands for: names and
\* properties as accumulated, children as a set
RECURSIVE TreeOf(_, _)
TreeOf(pn, i) ==
  [name |-> pn[i].hierarchy.name, idx |-> i,
   properties |-> pn[i].hierarchy.properties,
   children |-> {TreeOf(pn, c) : c \in {k \in DOMAIN pn : /\ k # i
                                                           /\ pn[k].initialized_
                                                           /\ pn[k].parent = i}}]

\* a returned Hierarchy with the order of children left out
RECURSIVE Unordered(_)
Unordered(h) ==
  [name |-> h.name, idx |-> h.idx, properties |-> h.properties,
   children |-> {Unordered(h.children[m]) : m \in DOMAIN h.children}]

\* what Read() yields on s, as a function of s alone
OutcomeOf(s) ==
  IF Len(s) = 0 THEN [status |-> "error", tree |-> {}]
  ELSE IF ScanOf(s).ub THEN [status |-> "crash", tree |-> {}]
  ELSE [status |-> "ok", tree |-> {TreeOf(ScanOf(s).pn, 0)}]

\* C25: the outcome of Read() and the nodes, parent-child links and per-node
\* properties of the Hierarchy it returns are a function of the snapshot: they
\* are the same whatever order the sweep takes the accumulators in and
\* whatever order the stack hands the completed nodes back in; only the order
\* of the children of a node varies.
C25_OutcomeIndependentOfOrder ==
  Done =>
    /\ result.status = OutcomeOf(snapshot_).status
    /\ result.status = "ok" =>
         /\ {Unordered(result.h)} = OutcomeOf(snapshot_).tree
         /\ CountNodes(<<result.h>>) = Cardinality(NodesOf(result.h))

\* the root came back with its two children in the reverse of their block
\* order, one of them with a child of its own
C25_Witness ==
  /\ Done
  /\ result.status = "ok"
  /\ Len(result.h.children) = 2
  /\ result.h.children[1].idx > result.h.children[2].idx
  /\ \E m \in 1..2 : Len(result.h.children[m].children) = 1

\* the value blocks of s whose parse yields a property
AddedValues(s) ==
  {j \in BlocksOf(s) :
     \/ GetType(s, j) \in ValueTypes /\ InnerParseNumericProperty(s, j).add
     \/ GetType(s, j) = "PropertyValue" /\ InnerParseProperty(s, j).add}

\* the value blocks whose property h holds on its node with index i
RECURSIVE PropertiesAt(_, _)
PropertiesAt(h, i) ==
  (IF h.idx = i THEN {h.properties[m].src : m \in DOMAIN h.properties} ELSE {})
    \cup UNION {PropertiesAt(h.children[m], i) : m \in DOMAIN h.children}

IsPrefix(a, b) == Len(a) <= Len(b) /\ SubSeq(b, 1, Len(a)) = a

\* C26: a step of the scan never resets an accumulator: the properties it
\* holds stay, in order, its children_count never drops, and the step that
\* initializes index k from its NodeValue block changes neither of them, so
\* what was accumulated for k before its own block was met is kept; in the
\* end every value block that parses sits on the node its parent index
\* names, whether it comes before or after that node's block.
C26_PropertiesSurviveInitialization ==
  /\ [][pc = "scan" =>
         \A k \in DOMAIN parsed_nodes_ :
           /\ k \in DOMAIN parsed_nodes_'
           /\ IsPrefix(parsed_nodes_[k].hierarchy.properties,
                       parsed_nodes_'[k].hierarchy.properties)
           /\ parsed_nodes_'[k].children_count >= parsed_nodes_[k].children_count
           /\ parsed_nodes_[k].initialized_ =>
                /\ parsed_nodes_'[k].initialized_
                /\ parsed_nodes_'[k].hierarchy.name = parsed_nodes_[k].hierarchy.name
                /\ parsed_nodes_'[k].parent = parsed_nodes_[k].parent
           /\ (~parsed_nodes_[k].initialized_ /\ parsed_nodes_'[k].initialized_) =>
                /\ k = cursor
                /\ parsed_nodes_'[k].hierarchy.properties
                     = parsed_nodes_[k].hierarchy.properties
                /\ parsed_nodes_'[k].children_count = parsed_nodes_[k].children_count]_vars
  /\ [](pc \in {"sweep", "assemble"} =>
          \A j \in AddedValues(snapshot_) :
            \/ \E x \in AttachedProperties : x.p.src = j /\ x.parent = At(snapshot_, j).lo
            \/ At(snapshot_, j).lo \notin DOMAIN parsed_nodes_)
  /\ []((Done /\ result.status = "ok") =>
          \A j \in AddedValues(snapshot_) :
            At(snapshot_, j).lo \in NodesOf(result.h) =>
              j \in PropertiesAt(result.h, At(snapshot_, j).lo))

\* a node below the root came back with two properties, one from a value
\* block scanned before the node's own block and one from a block after it
C26_Witness ==
  /\ Done
  /\ result.status = "ok"
  /\ \E m \in DOMAIN result.h.children :
       LET c == result.h.children[m]
       IN /\ Len(c.properties) = 2
          /\ c.properties[1].src < c.idx
          /\ c.properties[2].src > c.idx

\* the parent chain of c passes through i
RECURSIVE Descends(_, _, _, _)
Descends(s, c, i, fuel) ==
  \/ c = i
  \/ /\ fuel > 0
     /\ c \in NamedNodes(s)
     /\ Descends(s, At(s, c).lo, i, fuel - 1)

\* s with the block at index i turned into a free block
WithoutBlock(s, i) == [s EXCEPT ![i + 1].type = "Free"]

\* C27: a NodeValue block whose name fails validation initializes no
\* accumulator and adds nothing to the children_count of the parent it
\* declares; it, the nodes whose parent chain passes through it and the
\* properties parented on any of them are in no result, and the scan and
\* Read() end exactly as on the same buffer with that block free.
C27_BadNamedNodeIsIgnored ==
  \A i \in BadNamedNodes(snapshot_) :
    /\ pc \in {"scan", "sweep", "assemble", "done"} =>
         /\ i \in DOMAIN parsed_nodes_ => ~parsed_nodes_[i].initialized_
         /\ \A k \in DOMAIN parsed_nodes_ :
              parsed_nodes_[k].children_count
                <= Cardinality(ScannedChildren(snapshot_, k, Len(snapshot_)) \ {i})
    /\ (pc = "sweep" /\ Cardinality(sweep) = nAcc) =>
         parsed_nodes_ = ScanOf(WithoutBlock(snapshot_, i)).pn
    /\ Done =>
         /\ result.status = OutcomeOf(WithoutBlock(snapshot_, i)).status
         /\ result.status = "ok" =>
              /\ {Unordered(result.h)} = OutcomeOf(WithoutBlock(snapshot_, i)).tree
              /\ \A c \in NodesOf(result.h) :
                   ~Descends(snapshot_, c, i, Len(snapshot_))
              /\ \A j \in PropertiesOf(result.h) :
                   ~Descends(snapshot_, At(snapshot_, j).lo, i, Len(snapshot_))

\* Read() returned on a buffer where a NodeValue block under the root has a
\* name that fails validation, and a named node and a named value declare
\* that block as parent
C27_Witness ==
  /\ Done
  /\ result.status = "ok"
  /\ \E i \in BadNamedNodes(snapshot_) :
       /\ At(snapshot_, i).lo = 0
       /\ \E c \in NamedNodes(snapshot_) : At(snapshot_, c).lo = i
       /\ \E j \in AddedValues(snapshot_) : At(snapshot_, j).lo = i

\* index e holds a whole block of type Extent
IsExtent(s, e) ==
  /\ e \in 0..(Len(s) - 1)
  /\ e + OrderToUnits(GetOrder(s, e)) <= Len(s)
  /\ GetType(s, e) = "Extent"

\* the chain of extents from e ends at an index that holds no extent
RECURSIVE ChainEnds(_, _, _)
ChainEnds(s, e, seen) ==
  IF ~IsExtent(s, e) THEN TRUE
  ELSE IF e \in seen THEN FALSE
  ELSE ChainEnds(s, At(s, e).lo, seen \cup {e})

\* the named property blocks whose chain of extents ends before it holds the
\* length the block declares
ShortProperties(s) ==
  {j \in PropertyBlocks(s) :
     /\ NameFits(s, At(s, j).hi)
     /\ ChainEnds(s, At(s, j).b, {})
     /\ Len(ChainPayloads(s, At(s, j).b, {})) < At(s, j).a}

\* C28: a string or byte-vector property whose chain of extents ends at an
\* invalid index or at a block that is no Extent before the declared total
\* length is consumed is attached all the same; its value is the payloads of
\* the extents before that point, in chain order (empty when the first extent
\* index is already invalid), and is shorter than the declared length.
C28_TruncatedChainKeepsPrefix ==
  \A j \in ShortProperties(snapshot_) :
    LET b == At(snapshot_, j)
        held == {x \in AttachedProperties : x.p.src = j}
    IN /\ ((pc = "scan" /\ cursor > j) \/ (pc = "sweep" /\ Cardinality(sweep) = nAcc)) =>
            /\ Cardinality(held) = 1
            /\ \A x \in held :
                 /\ x.parent = b.lo
                 /\ x.p.kind = (IF b.c % 2 = kBinary THEN "bytes" ELSE "string")
                 /\ x.p.value = ChainPayloads(snapshot_, b.b, {})
                 /\ Len(x.p.value) < b.a
                 /\ ~IsExtent(snapshot_, b.b) => x.p.value = << >>
       /\ (Done /\ result.status = "ok" /\ b.lo = 0) =>
            \E m \in DOMAIN result.h.properties :
              /\ result.h.properties[m].src = j
              /\ result.h.properties[m].value = ChainPayloads(snapshot_, b.b, {})

\* a property that declares 12 bytes came back with the 8 bytes of its one
\* extent, whose next index names no extent
C28_Witness ==
  /\ Done
  /\ result.status = "ok"
  /\ \E m \in DOMAIN result.h.properties :
       LET p == result.h.properties[m]
       IN /\ p.src \in ShortProperties(snapshot_)
          /\ At(snapshot_, p.src).a = 12
          /\ Len(p.value) = 8

\* the ArrayValue blocks with a valid name, a numeric entry type and a count
\* of at least `least` that their block has the slots for
FittingArrays(s, least) ==
  {j \in BlocksOf(s) :
     /\ GetType(s, j) = "ArrayValue"
     /\ NameFits(s, At(s, j).hi)
     /\ At(s, j).a \in NumericCodes
     /\ At(s, j).c >= least
     /\ At(s, j).c <= ArrayCapacity(GetOrder(s, j))}

\* the arrays of `arrays` are attached to their parent, entry for entry
ArraysAttached(arrays) ==
  \A j \in arrays :
    ((pc = "scan" /\ cursor > j) \/ (pc = "sweep" /\ Cardinality(sweep) = nAcc)) =>
      LET b == At(snapshot_, j)
          held == {x \in AttachedProperties : x.p.src = j}
      IN /\ Cardinality(held) = 1
         /\ \A x \in held :
              /\ x.parent = b.lo
              /\ x.p.kind = ArrayKind(b.a)
              /\ x.p.value = [k \in 1..b.c |-> SlotValue(j, k - 1)]

\* C29: an ArrayValue block with a valid name, a numeric entry type and a
\* count c that its block has the slots for is attached to its parent as an
\* array property of exactly c entries, for every c from 0 to the capacity.
C29_FittingArrayAttached == ArraysAttached(FittingArrays(snapshot_, 0))

\* the snapshot passed the validity check and its block 0 is no Header
NoHeader == Len(snapshot_) > 0 /\ GetType(snapshot_, 0) # "Header"

SeededRoot == (0 :> InitializeNode(NewParsedNode(0), RootName, 0))

\* C30: when block 0 is not of type Header the callback of InnerScanBlocks
\* ends the scan at block 0: no block after it is visited, the accumulator
\* map holds the seeded root and nothing else all along, and Read() returns
\* from the sweep with the root named "root", without property or child.
C30_NoHeaderYieldsBareRoot ==
  (NoHeader /\ pc \in {"scan", "sweep", "assemble", "done"}) =>
    /\ cursor <= OrderToUnits(GetOrder(snapshot_, 0))
    /\ maxRead <= kHeaderWordSize
    /\ parsed_nodes_ = SeededRoot
    /\ complete_nodes = << >>
    /\ pc # "assemble"
    /\ pops = 0
    /\ pc = "sweep" => sweep = {0}
    /\ Done => result = Ok(Hierarchy(RootName, << >>, << >>, 0))

\* Read() returned on a snapshot whose block 0 is no Header and that holds a
\* named NodeValue block and a named value block under the root
C30_Witness ==
  /\ Done
  /\ NoHeader
  /\ result.status = "ok"
  /\ \E j \in 1..(Len(snapshot_) - 1) :
       /\ GetType(snapshot_, j) = "NodeValue"
       /\ At(snapshot_, j).lo = 0
       /\ NameFits(snapshot_, At(snapshot_, j).hi)
  /\ \E j \in 1..(Len(snapshot_) - 1) :
       /\ GetType(snapshot_, j) = "IntValue"
       /\ NameFits(snapshot_, At(snapshot_, j).hi)

\* the named NodeValue blocks that declare their own index as parent
SelfParents(s) == {i \in NamedNodes(s) : At(s, i).lo = i}

\* this step puts the accumulator of index k on the stack
Pushes(k) ==
  /\ pc \in {"sweep", "assemble"}
  /\ k \in StackIdx(complete_nodes') \ StackIdx(complete_nodes)

\* C31 as stated: a node that names itself as parent is pushed only if no
\* child was counted for it.
C31_SelfParentPushedChildless ==
  [][\A i \in SelfParents(snapshot_) :
       Pushes(i) => parsed_nodes_[i].children_count = 0]_vars

\* C31, amended: a NodeValue block at an index other than 0 that declares its
\* own index as parent increments no children_count; it is pushed once every
\* child counted for it is attached (in the sweep when it has none, in the
\* while loop after its last child otherwise), it is out of the map by then,
\* so its entry finds no parent when popped and is dropped; it is in no
\* result, and Read() ends as on the same buffer with that block free.
C31_SelfParentNeverInResult ==
  /\ [][\A i \in SelfParents(snapshot_) :
          /\ (pc = "scan" /\ cursor = i) =>
               /\ \A k \in DOMAIN parsed_nodes_ :
                    parsed_nodes_'[k].children_count = parsed_nodes_[k].children_count
               /\ \A k \in DOMAIN parsed_nodes_' \ DOMAIN parsed_nodes_ :
                    k = i /\ parsed_nodes_'[k].children_count = 0
               /\ parsed_nodes_'[i].initialized_
               /\ parsed_nodes_'[i].parent = i
          /\ Pushes(i) =>
               /\ complete_nodes'[Len(complete_nodes')].parent = i
               /\ Len(complete_nodes'[Len(complete_nodes')].h.children)
                    = Cardinality(ScannedChildren(snapshot_, i, Len(snapshot_)))
               /\ i \notin DOMAIN parsed_nodes_'
               /\ (pc = "sweep") = (parsed_nodes_[i].children_count = 0)
          /\ (/\ pc = "assemble"
              /\ complete_nodes # << >>
              /\ complete_nodes[Len(complete_nodes)].h.idx = i) =>
               /\ i \notin DOMAIN parsed_nodes_
               /\ parsed_nodes_' = parsed_nodes_
               /\ ~Done']_vars
  /\ [](Done =>
          \A i \in SelfParents(snapshot_) :
            /\ result.status = OutcomeOf(WithoutBlock(snapshot_, i)).status
            /\ result.status = "ok" =>
                 /\ i \notin NodesOf(result.h)
                 /\ {Unordered(result.h)} = OutcomeOf(WithoutBlock(snapshot_, i)).tree)

\* Read() returned the root with its one child after the while loop had
\* attached a child to a node that names itself as parent, pushed that node
\* and dropped it
C31_Witness ==
  /\ Done
  /\ result.status = "ok"
  /\ Len(result.h.children) = 1
  /\ pops = 3
  /\ \E i \in SelfParents(snapshot_) :
       \E c \in NamedNodes(snapshot_) : c # i /\ At(snapshot_, c).lo = i

\* C32: from the seeding of the root to the end of Read() the accumulator at
\* index 0 is initialized, is named "root" and has parent 0: no block,
\* whatever its type and wherever it sits, renames it, re-parents it or takes
\* it out of the map, and a Hierarchy that Read() returns is named "root".
C32_RootStaysRoot ==
  /\ pc \in {"scan", "sweep", "assemble"} =>
       /\ 0 \in DOMAIN parsed_nodes_
       /\ parsed_nodes_[0].initialized_
       /\ parsed_nodes_[0].hierarchy.name = RootName
       /\ parsed_nodes_[0].hierarchy.idx = 0
       /\ parsed_nodes_[0].parent = 0
       /\ \A m \in DOMAIN complete_nodes : complete_nodes[m].h.idx # 0
  /\ (Done /\ result.status = "ok") =>
       /\ result.h.name = RootName
       /\ result.h.idx = 0

\* Read() returned on a snapshot whose block 0 is a NodeValue block with a
\* name index that validates
C32_Witness ==
  /\ Done
  /\ result.status = "ok"
  /\ GetType(snapshot_, 0) = "NodeValue"
  /\ NameFits(snapshot_, At(snapshot_, 0).hi)
  /\ result.h.name = <<114, 111, 111, 116>>

\* C33: a node or a property exists only if the name index of its block
\* names a block of type Name: no accumulator is initialized from a
\* NodeValue block, and no property is attached from a value block, whose
\* name index names a block of another type.
C33_NameIsNameBlock ==
  pc \in {"scan", "sweep", "assemble", "done"} =>
    /\ \A k \in DOMAIN parsed_nodes_ \ {0} :
         parsed_nodes_[k].initialized_ =>
           GetType(snapshot_, At(snapshot_, k).hi) = "Name"
    /\ \A x \in AttachedProperties :
         GetType(snapshot_, At(snapshot_, x.p.src).hi) = "Name"
    /\ (Done /\ result.status = "ok") =>
         /\ \A i \in NodesOf(result.h) \ {0} :
              GetType(snapshot_, At(snapshot_, i).hi) = "Name"
         /\ \A j \in PropertiesOf(result.h) :
              GetType(snapshot_, At(snapshot_, j).hi) = "Name"

\* the IntValue, UintValue, DoubleValue and PropertyValue blocks whose name
\* validates
NamedScalars(s) ==
  {j \in BlocksOf(s) : /\ GetType(s, j) \in NumericTypes \cup {"PropertyValue"}
                        /\ NameFits(s, At(s, j).hi)}

\* the places, accumulator and position, where a property of block j sits
Occurrences(j) ==
  {<<k, m>> \in (DOMAIN parsed_nodes_) \X (1..BufLen) :
     /\ m \in DOMAIN parsed_nodes_[k].hierarchy.properties
     /\ parsed_nodes_[k].hierarchy.properties[m].src = j}

\* C34: once the scan has passed an IntValue, UintValue, DoubleValue or
\* PropertyValue block with a valid name, exactly one property of it exists,
\* on the accumulator of the parent index it declares: a signed, unsigned or
\* double value holding the block's payload for the three numeric types, and
\* for a PropertyValue block the bytes of its extents as a byte vector when
\* the binary flag is set and as a string otherwise.
C34_OnePropertyOfMatchingKind ==
  \A j \in NamedScalars(snapshot_) :
    ((pc = "scan" /\ cursor > j) \/ (pc = "sweep" /\ Cardinality(sweep) = nAcc)) =>
      LET b == At(snapshot_, j)
      IN /\ Cardinality(Occurrences(j)) = 1
         /\ \A o \in Occurrences(j) :
              LET p == parsed_nodes_[o[1]].hierarchy.properties[o[2]]
              IN /\ o[1] = b.lo
                 /\ p.name = NameOf(snapshot_, b.hi)
                 /\ p.format = "none"
                 /\ b.type = "IntValue" => (p.kind = "int" /\ p.value = <<b.a>>)
                 /\ b.type = "UintValue" => (p.kind = "uint" /\ p.value = <<b.a>>)
                 /\ b.type = "DoubleValue" => (p.kind = "double" /\ p.value = <<b.a>>)
                 /\ b.type = "PropertyValue" =>
                      /\ p.kind = (IF b.c % 2 = kBinary THEN "bytes" ELSE "string")
                      /\ p.value = ChainBytes(snapshot_, b.b, Min(b.a, SizeBytes(snapshot_)),
                                              SizeBytes(snapshot_))

\* the scan ended with an unsigned value on the root, a double on the node
\* below it, and nothing else
C34_Witness ==
  /\ pc = "sweep"
  /\ Cardinality(sweep) = nAcc
  /\ DOMAIN parsed_nodes_ = {0, 2}
  /\ Len(parsed_nodes_[0].hierarchy.properties) = 1
  /\ parsed_nodes_[0].hierarchy.properties[1].kind = "uint"
  /\ Len(parsed_nodes_[2].hierarchy.properties) = 1
  /\ parsed_nodes_[2].hierarchy.properties[1].kind = "double"

\* the ArrayValue blocks of s
ArrayBlocks(s) == {j \in BlocksOf(s) : GetType(s, j) = "ArrayValue"}

\* C35: an ArrayValue block whose entry type is none of IntValue, UintValue
\* and DoubleValue adds no property to any accumulator, and the scan goes on
\* past it; an array that is attached has the linear or exponential histogram
\* format when its tag says so and the flat format for every other tag, and
\* an array with a valid name, a numeric entry type and a count from 1 to its
\* capacity is attached whatever its tag.
C35_EntryTypeAndFormat ==
  \A j \in ArrayBlocks(snapshot_) :
    LET b == At(snapshot_, j)
    IN /\ pc \in {"scan", "sweep", "assemble", "done"} =>
            /\ b.a \notin NumericCodes =>
                 /\ Occurrences(j) = {}
                 /\ (ArrayBlocks(snapshot_) = {j} /\ Done) =>
                      (result.status = "ok" /\ j \notin PropertiesOf(result.h))
            /\ \A o \in Occurrences(j) :
                 LET p == parsed_nodes_[o[1]].hierarchy.properties[o[2]]
                 IN /\ p.kind = ArrayKind(b.a)
                    /\ p.format = (CASE b.b = 1 -> "linear_histogram"
                                     [] b.b = 2 -> "exponential_histogram"
                                     [] OTHER -> "flat")
       /\ (/\ j \in FittingArrays(snapshot_, 1)
           /\ (pc = "scan" /\ cursor > j) \/ (pc = "sweep" /\ Cardinality(sweep) = nAcc)) =>
            Cardinality(Occurrences(j)) = 1

\* an array of two entries whose format tag is 3 came back on the root with
\* the flat format
C35_Witness ==
  /\ Done
  /\ result.status = "ok"
  /\ \E m \in DOMAIN result.h.properties :
       LET p == result.h.properties[m]
       IN /\ GetType(snapshot_, p.src) = "ArrayValue"
          /\ At(snapshot_, p.src).b = 3
          /\ Len(p.value) = 2
          /\ p.format = "flat"

====
